---------------------------- MODULE Spec2Model ----------------------------
(***************************************************************************)
(* State-machine model of the print-server agent:                          *)
(*   - the file ingestion pipeline (src/src/monitor/controllers/monitor.js)*)
(*   - the printer fleet reconciler (src/src/sync/controllers/printers.js, *)
(*     desktop-agent variant and MAC-based variant)                        *)
(* Every awaited I/O call is one atomic step; the synchronous code between *)
(* two awaits runs with the step that resumes it (Node's event loop).      *)
(***************************************************************************)
EXTENDS Integers, Sequences, FiniteSets, Bags, TLC

(***************************************************************************)
(* Bounds of the model.                                                    *)
(***************************************************************************)
MaxIds == 2        \* identifiers uuid() can hand out
MaxProcs == 2      \* concurrently running callbacks (watcher timers, sweeps)
MaxFaults == 1     \* failures of the store and the filesystem in one run
MaxPrinters == 1   \* printer identifiers
MaxBatch == 1      \* descriptors in one sync request
MaxSyncFaults == 2 \* failures of CUPS and the store in one reconciler call
MaxHandlers == 2   \* syncPrinters requests handled at the same time

(***************************************************************************)
(* Input samples.                                                          *)
(***************************************************************************)
PageCounts == {3}        \* page counts of the PDFs a user drops

Ids == 1..MaxIds

VARIABLES
    disk,            \* path -> content of the file (0: no such file)
    files,           \* the files table: a set of FileRecords
    nextId,          \* how many identifiers uuid() has generated
    processedFiles,  \* monitor.js:218 the "currently processing" set
    pendingAdd,      \* files chokidar has seen appear and not yet reported
    delivered,       \* history: the paths an 'add' callback has run for
    tasks,           \* the running callbacks: a bag of task states
    dropped,         \* history: the paths a user has dropped a file at
    faultCount,      \* history: the failures injected so far
    cups,            \* the CUPS queues: a set of [name, ip]
    printers,        \* the printers table: id -> row (NoRecord: no row)
    call,            \* the reconciler call in flight: its position and locals
    syncResults,     \* the result lists and counters of that call
    log,             \* history: the CUPS and store calls of that call, in order
    syncFaults,      \* history: the failures injected into that call
    handlers,        \* the syncPrinters requests that are handled side by side
    job,             \* the printFile call in flight: its position and locals
    printLog,        \* history: the store and lp calls of that call, in order
    pendingUnlink,   \* files chokidar has seen disappear and not yet reported
    aged,            \* the files whose modification time is before the cutoff
    activeApiIPs,    \* part_005 the in-memory cache of peer addresses
    notifications,   \* history: <<id, ok>> for every sendFileToApi that returned
    fileNameSave,    \* the argument of the cleanFileName call
    cleanResult,     \* what that call gave back
    lookup,          \* the getIpFromMac call in flight and what it has run
    probe,           \* the endpoint probing of one ipp descriptor
    setup            \* the setupPrinter calls made one after the other

monVars == <<disk, files, nextId, processedFiles, pendingAdd, delivered, tasks, dropped, faultCount>>
syncVars == <<cups, printers, call, syncResults, log, syncFaults, handlers>>
printVars == <<job, printLog, pendingUnlink, aged>>
apiVars == <<activeApiIPs, notifications, fileNameSave, cleanResult>>
netVars == <<lookup, probe, setup>>
vars == <<monVars, syncVars, printVars, apiVars, netVars>>

(***************************************************************************)
(* Paths.  A path is <dir>/<base><ext>.  A base is either the name of a    *)
(* dropped document (0) or an identifier (1..MaxIds).                      *)
(***************************************************************************)
BASE_PATH_FILES == "root"
SubDir == "sub"
PdfExt == ".pdf"
TxtExt == ".txt"
UpperPdfExt == ".PDF"
ReportBase == 0

MkPath(d, b, e) == [dir |-> d, base |-> b, ext |-> e]

\* path.extname / path.dirname / path.basename minus the extension
extname(p) == p.ext
dirname(p) == p.dir
basenameNoExt(p) == p.base

\* String.prototype.toLowerCase on the extensions the model uses
toLowerCase(e) == IF e = UpperPdfExt THEN PdfExt ELSE e

\* uuid.validate: only generated identifiers are valid uuids
uuidValidate(b) == b \in Ids

\* monitor.js:142 path.join(path.dirname(filePath), id + ext)
newFilePath(p, id) == MkPath(dirname(p), id, extname(p))

DropPaths == {MkPath(SubDir, ReportBase, PdfExt)}
CanonPaths == {MkPath(SubDir, i, PdfExt) : i \in Ids}
\* the other files a user can put on the share: a text file, a PDF directly
\* at the watched root, and a PDF whose extension is written in capitals
\* (with the names the pipeline gives its copies)
TxtPaths == {MkPath(SubDir, ReportBase, TxtExt)}
RootPaths == {MkPath(BASE_PATH_FILES, ReportBase, PdfExt)}
UpperPaths == {MkPath(SubDir, ReportBase, UpperPdfExt)}
UpperCanonPaths == {MkPath(SubDir, i, UpperPdfExt) : i \in Ids}
AllPaths ==
    DropPaths \cup CanonPaths \cup TxtPaths \cup RootPaths \cup UpperPaths \cup UpperCanonPaths
NoPath == MkPath("none", 0, "")

exists(p) == disk[p] # 0

\* a file that was there is removed: chokidar will report 'unlink' for it
Disappears(p) ==
    /\ pendingUnlink' = IF exists(p) THEN pendingUnlink \cup {p} ELSE pendingUnlink
    /\ aged' = aged \ {p}

\* pdf-lib's page count and fs.stat's size of a file content
PageCount(c) == c
Size(c) == c

(***************************************************************************)
(* The files table (unnamed/part_004).                                     *)
(***************************************************************************)
FileRecord(id, fileName, pages, p) ==
    [id |-> id, assetId |-> 0, fileName |-> fileName, pages |-> pages, path |-> p,
     printed |-> FALSE, deleted |-> FALSE]

\* FilesModel.getById: SELECT * FROM files WHERE id = $1 (no deletedAt filter)
FilesGetById(id) == {r \in files : r.id = id}

\* FilesModel.insert: INSERT INTO files (id, assetId, fileName, pages, path, createdAt)
FilesInsert(rec) == files \cup {rec}

\* FilesModel.delete: UPDATE files SET deletedAt = now WHERE id = $2
FilesDelete(id) ==
    {r \in files : r.id # id} \cup
    {[r EXCEPT !.deleted = TRUE] : r \in {q \in files : q.id = id}}


(***************************************************************************)
(* Callbacks.  A task is one running callback: the 3 s timer of a watcher  *)
(* 'add' event ("watch") or one checkAllFiles sweep ("sweep").  pc is the  *)
(* await the callback is suspended at.  Callbacks have no identity of      *)
(* their own, so the running ones form a bag.                              *)
(***************************************************************************)
IdleTask ==
    [kind |-> "idle", pc |-> "idle", path |-> NoPath, id |-> 0, pages |-> 0,
     data |-> 0, items |-> <<>>, copied |-> FALSE, old |-> {}, ips |-> <<>>]

Running == BagToSet(tasks)

\* the callback tk goes on as tk2, or ends (tk2 = IdleTask)
SetTask(tk, tk2) ==
    tasks' = IF tk2 = IdleTask
             THEN tasks (-) SetToBag({tk})
             ELSE (tasks (-) SetToBag({tk})) (+) SetToBag({tk2})

\* a new callback starts
Spawn(tk2) ==
    /\ BagCardinality(tasks) < MaxProcs
    /\ tasks' = tasks (+) SetToBag({tk2})

\* The code that runs when processNewFile returns to its caller:
\*   watcher timer (monitor.js:257-261): schedule the 6 s timer;
\*   sweep (monitor.js:175): go on with the next item, or end the sweep.
Return(tk) ==
    IF tk.kind = "watch"
    THEN [IdleTask EXCEPT !.kind = "watch", !.pc = "cooldown", !.path = tk.path]
    ELSE IF tk.items = <<>> THEN IdleTask
    ELSE [IdleTask EXCEPT !.kind = "sweep", !.pc = "stat", !.items = tk.items]

\* processNewFile without its test of the extension
PnfFirstAwait_AnyExt(p) ==
    IF dirname(p) = BASE_PATH_FILES
    THEN IF exists(p) THEN "deleteFile" ELSE "return"
    ELSE IF uuidValidate(basenameNoExt(p)) THEN "getById" ELSE "getPages"

\* processNewFile without its test of the parent directory
PnfFirstAwait_AnyDir(p) ==
    IF toLowerCase(extname(p)) # ".pdf"
    THEN IF exists(p) THEN "deleteFile" ELSE "return"
    ELSE IF uuidValidate(basenameNoExt(p)) THEN "getById" ELSE "getPages"

\* monitor.js:100-120 the synchronous head of processNewFile: where it
\* first suspends.
PnfFirstAwait(p) ==
    IF toLowerCase(extname(p)) # ".pdf" \/ dirname(p) = BASE_PATH_FILES
    THEN IF exists(p) THEN "deleteFile" ELSE "return"
    ELSE IF uuidValidate(basenameNoExt(p)) THEN "getById" ELSE "getPages"

\* monitor.js:122-136 id = uuid(); ... await getPages(filePath)
ToGetPages(tk, p) ==
    /\ nextId < MaxIds
    /\ nextId' = nextId + 1
    /\ SetTask(tk, [tk EXCEPT !.pc = "getPages", !.path = p, !.id = nextId + 1])

\* monitor.js:98 a call of processNewFile(p) by the callback tk, which
\* goes on as tk2 while processNewFile runs
CallProcessNewFile(tk, tk2, p) ==
    LET first == PnfFirstAwait(p) IN
    CASE first = "getPages" ->
            /\ nextId < MaxIds
            /\ nextId' = nextId + 1
            /\ SetTask(tk, [tk2 EXCEPT !.pc = "getPages", !.path = p, !.id = nextId + 1])
      [] first = "return" ->
            /\ SetTask(tk, Return([tk2 EXCEPT !.path = p]))
            /\ UNCHANGED nextId
      [] OTHER ->
            /\ SetTask(tk, [tk2 EXCEPT !.pc = first, !.path = p])
            /\ UNCHANGED nextId

(***************************************************************************)
(* The environment: a user drops a PDF with a non-canonical name.          *)
(***************************************************************************)
\* each file of DropPaths is dropped once
Drop(p, c) ==
    /\ p \notin dropped
    /\ disk' = [disk EXCEPT ![p] = c]
    /\ pendingAdd' = pendingAdd \cup {p}
    /\ dropped' = dropped \cup {p}
    /\ UNCHANGED <<files, nextId, processedFiles, tasks, faultCount, delivered>> /\ UNCHANGED <<syncVars, apiVars, netVars, printVars>>

(***************************************************************************)
(* watcher.on('add') and its timers, monitor.js:243-263                    *)
(***************************************************************************)
\* the guard lets every 'add' callback through
AlreadyProcessing_Never(p) == FALSE

\* monitor.js:244 processedFiles.has(filePath)
AlreadyProcessing(p) == p \in processedFiles

\* the 'add' callback for a file chokidar saw appear
WatcherAdd(p) ==
    /\ p \in pendingAdd
    /\ pendingAdd' = pendingAdd \ {p}
    /\ delivered' = delivered \cup {p}
    /\ IF AlreadyProcessing(p)
       THEN UNCHANGED <<processedFiles, tasks>>
       ELSE /\ processedFiles' = processedFiles \cup {p}
            /\ Spawn([IdleTask EXCEPT !.kind = "watch", !.pc = "debounce", !.path = p])
    /\ UNCHANGED <<disk, files, nextId, dropped, faultCount>> /\ UNCHANGED <<syncVars, apiVars, netVars, printVars>>

\* the 3 s timer fires: if (fs.existsSync(filePath)) await processNewFile(filePath)
WatchTimer(tk) ==
    /\ tk.pc = "debounce"
    /\ IF exists(tk.path)
       THEN CallProcessNewFile(tk, tk, tk.path)
       ELSE SetTask(tk, Return(tk)) /\ UNCHANGED nextId
    /\ UNCHANGED <<disk, files, processedFiles, pendingAdd, delivered, dropped, faultCount>> /\ UNCHANGED <<syncVars, apiVars, netVars, printVars>>

\* the 6 s timer fires: processedFiles.delete(filePath)
WatchCooldown(tk) ==
    /\ tk.pc = "cooldown"
    /\ processedFiles' = processedFiles \ {tk.path}
    /\ SetTask(tk, IdleTask)
    /\ UNCHANGED <<disk, files, nextId, pendingAdd, delivered, dropped, faultCount>> /\ UNCHANGED <<syncVars, apiVars, netVars, printVars>>

(***************************************************************************)
(* checkAllFiles, monitor.js:170-216, started every 5 s (monitor.js:303)   *)
(***************************************************************************)
\* the order in which the sweep meets the files of the tree: the file at
\* the root (its name sorts before the subfolder's), then the files of the
\* subfolder
DirOrder ==
    <<MkPath(BASE_PATH_FILES, ReportBase, PdfExt)>>
    \o <<MkPath(SubDir, ReportBase, PdfExt), MkPath(SubDir, ReportBase, TxtExt),
         MkPath(SubDir, ReportBase, UpperPdfExt)>>
    \o [i \in Ids |-> MkPath(SubDir, i, PdfExt)]
    \o [i \in Ids |-> MkPath(SubDir, i, UpperPdfExt)]

\* readdir of the watched tree, subfolder included
ReadDir == SelectSeq(DirOrder, exists)

\* the interval timer fires; readdir answers
SweepStart ==
    /\ ReadDir # <<>>
    /\ Spawn([IdleTask EXCEPT !.kind = "sweep", !.pc = "stat", !.items = ReadDir])
    /\ UNCHANGED <<disk, files, nextId, processedFiles, pendingAdd, delivered, dropped, faultCount>> /\ UNCHANGED <<syncVars, apiVars, netVars, printVars>>

\* monitor.js:185-193 the name of the item is an identifier
SweepNameIsUuid(p) ==
    LET ext == toLowerCase(extname(p)) IN
    /\ ext = extname(p)        \* fileName.replace(ext, '') strips the extension
    /\ uuidValidate(basenameNoExt(p))

\* fs.promises.stat(fullPath) answers for the next item
SweepStat(tk) ==
    /\ tk.pc = "stat"
    /\ LET p == Head(tk.items)
           tk2 == [tk EXCEPT !.items = Tail(@)]
       IN
       IF ~exists(p)
       THEN \* stat throws: caught at monitor.js:207, the sweep ends
            SetTask(tk, IdleTask) /\ UNCHANGED nextId
       ELSE IF toLowerCase(extname(p)) # ".pdf"
       THEN SetTask(tk, Return(tk2)) /\ UNCHANGED nextId
       ELSE IF SweepNameIsUuid(p)
       THEN SetTask(tk, [tk2 EXCEPT !.pc = "sweepGetById", !.path = p]) /\ UNCHANGED nextId
       ELSE CallProcessNewFile(tk, tk2, p)
    /\ UNCHANGED <<disk, files, processedFiles, pendingAdd, delivered, dropped, faultCount>> /\ UNCHANGED <<syncVars, apiVars, netVars, printVars>>

\* the guard read as "a live record exists"
HasId_LiveOnly(result) == \E r \in result : ~r.deleted

\* monitor.js:117 and :195  existingFile && existingFile.id
HasId(result) == result # {}

\* monitor.js:194-199 FilesModel.getById answers
SweepGetById(tk) ==
    /\ tk.pc = "sweepGetById"
    /\ IF HasId(FilesGetById(basenameNoExt(tk.path)))
       THEN SetTask(tk, Return(tk)) /\ UNCHANGED nextId
       ELSE CallProcessNewFile(tk, tk, tk.path)
    /\ UNCHANGED <<disk, files, processedFiles, pendingAdd, delivered, dropped, faultCount>> /\ UNCHANGED <<syncVars, apiVars, netVars, printVars>>

\* FilesModel.getById fails: it answers { message }, which has no id
SweepGetByIdFail(tk) ==
    /\ faultCount < MaxFaults
    /\ faultCount' = faultCount + 1
    /\ tk.pc = "sweepGetById"
    /\ CallProcessNewFile(tk, tk, tk.path)
    /\ UNCHANGED <<disk, files, processedFiles, pendingAdd, delivered, dropped>> /\ UNCHANGED <<syncVars, apiVars, netVars, printVars>>

(***************************************************************************)
(* processNewFile, monitor.js:98-168, one action per await.  The actions   *)
(* named ...Fail are the failures of the store and of the filesystem that  *)
(* the code catches.                                                       *)
(***************************************************************************)
\* monitor.js:27-40 deleteFile of a rejected file: fs.promises.unlink answers
DeleteFile(tk) ==
    /\ tk.pc = "deleteFile"
    /\ disk' = [disk EXCEPT ![tk.path] = 0]
    /\ pendingAdd' = pendingAdd \ {tk.path}
    /\ Disappears(tk.path)
    /\ SetTask(tk, Return(tk))
    /\ UNCHANGED <<files, nextId, processedFiles, dropped, faultCount, delivered>>
    /\ UNCHANGED <<syncVars, apiVars, netVars, job, printLog>>

\* monitor.js:115-120 FilesModel.getById answers for an identifier-named file
GetById(tk) ==
    /\ tk.pc = "getById"
    /\ IF HasId(FilesGetById(basenameNoExt(tk.path)))
       THEN SetTask(tk, Return(tk)) /\ UNCHANGED nextId
       ELSE ToGetPages(tk, tk.path)
    /\ UNCHANGED <<disk, files, processedFiles, pendingAdd, delivered, dropped, faultCount>> /\ UNCHANGED <<syncVars, apiVars, netVars, printVars>>

\* FilesModel.getById fails: { message } has no id, the file counts as unknown
GetByIdFail(tk) ==
    /\ faultCount < MaxFaults
    /\ faultCount' = faultCount + 1
    /\ tk.pc = "getById"
    /\ ToGetPages(tk, tk.path)
    /\ UNCHANGED <<disk, files, processedFiles, pendingAdd, delivered, dropped>> /\ UNCHANGED <<syncVars, apiVars, netVars, printVars>>

\* monitor.js:11-25,136-144 getPages reads the file and counts its pages
GetPages(tk) ==
    /\ tk.pc = "getPages"
    /\ IF exists(tk.path)
       THEN SetTask(tk, [tk EXCEPT !.pc = "insert", !.pages = PageCount(disk[tk.path])])
       ELSE \* readFile throws, getPages returns 'Error'
            SetTask(tk, Return(tk))
    /\ UNCHANGED <<disk, files, nextId, processedFiles, pendingAdd, delivered, dropped, faultCount>> /\ UNCHANGED <<syncVars, apiVars, netVars, printVars>>

\* the document cannot be parsed and processNewFile removes it
GetPagesFail_Remove(tk) ==
    /\ faultCount < MaxFaults
    /\ faultCount' = faultCount + 1
    /\ tk.pc = "getPages"
    /\ exists(tk.path)
    /\ disk' = [disk EXCEPT ![tk.path] = 0]
    /\ SetTask(tk, Return(tk))
    /\ UNCHANGED <<files, nextId, processedFiles, pendingAdd, delivered, dropped>> /\ UNCHANGED <<syncVars, apiVars, netVars, printVars>>

\* the document cannot be parsed: getPages returns 'Error'
GetPagesFail(tk) ==
    /\ faultCount < MaxFaults
    /\ faultCount' = faultCount + 1
    /\ tk.pc = "getPages"
    /\ exists(tk.path)
    /\ SetTask(tk, Return(tk))
    /\ UNCHANGED <<disk, files, nextId, processedFiles, pendingAdd, delivered, dropped>> /\ UNCHANGED <<syncVars, apiVars, netVars, printVars>>

\* monitor.js:144 the row processNewFile inserts
NewRecord(tk) ==
    FileRecord(tk.id, [base |-> basenameNoExt(tk.path), ext |-> extname(tk.path)],
               tk.pages, newFilePath(tk.path, tk.id))

\* monitor.js:145 FilesModel.insert answers; the result is not looked at
Insert(tk) ==
    /\ tk.pc = "insert"
    /\ files' = FilesInsert(NewRecord(tk))
    /\ SetTask(tk, [tk EXCEPT !.pc = "copyRead", !.pages = 0])
    /\ UNCHANGED <<disk, nextId, processedFiles, pendingAdd, delivered, dropped, faultCount>> /\ UNCHANGED <<syncVars, apiVars, netVars, printVars>>

\* FilesModel.insert fails and returns { message }
InsertFail(tk) ==
    /\ faultCount < MaxFaults
    /\ faultCount' = faultCount + 1
    /\ tk.pc = "insert"
    /\ SetTask(tk, [tk EXCEPT !.pc = "copyRead", !.pages = 0])
    /\ UNCHANGED <<disk, files, nextId, processedFiles, pendingAdd, delivered, dropped>> /\ UNCHANGED <<syncVars, apiVars, netVars, printVars>>

\* copyFile returned false and the original is unlinked all the same
CopyFailed_Unlink(tk) == [tk EXCEPT !.pc = "unlink", !.copied = FALSE, !.data = 0]

\* monitor.js:92-95,155-157 copyFile returned false
CopyFailed(tk) == [tk EXCEPT !.pc = "rollback", !.copied = FALSE, !.data = 0]

\* monitor.js:80 copyFile: readFile(source) answers
CopyRead(tk) ==
    /\ tk.pc = "copyRead"
    /\ IF exists(tk.path)
       THEN SetTask(tk, [tk EXCEPT !.pc = "copyWrite", !.data = disk[tk.path]])
       ELSE SetTask(tk, CopyFailed(tk))
    /\ UNCHANGED <<disk, files, nextId, processedFiles, pendingAdd, delivered, dropped, faultCount>> /\ UNCHANGED <<syncVars, apiVars, netVars, printVars>>

\* monitor.js:82 copyFile: writeFile(destination, fileData) answers
CopyWrite(tk) ==
    /\ tk.pc = "copyWrite"
    /\ disk' = [disk EXCEPT ![newFilePath(tk.path, tk.id)] = tk.data]
    /\ pendingAdd' = pendingAdd \cup {newFilePath(tk.path, tk.id)}
    /\ SetTask(tk, [tk EXCEPT !.pc = "copyStat", !.data = 0])
    /\ UNCHANGED <<files, nextId, processedFiles, dropped, faultCount, delivered>> /\ UNCHANGED <<syncVars, apiVars, netVars, printVars>>

\* writeFile throws
CopyWriteFail(tk) ==
    /\ faultCount < MaxFaults
    /\ faultCount' = faultCount + 1
    /\ tk.pc = "copyWrite"
    /\ SetTask(tk, CopyFailed(tk))
    /\ UNCHANGED <<disk, files, nextId, processedFiles, pendingAdd, delivered, dropped>> /\ UNCHANGED <<syncVars, apiVars, netVars, printVars>>

\* the comparison read as "the destination is larger"
SameSize_Larger(destSize, sourceSize) == destSize > sourceSize

\* monitor.js:87 destStats.size === sourceStats.size
SameSize(destSize, sourceSize) == destSize = sourceSize

\* monitor.js:84-91,147-149 copyFile: stat(source) and stat(destination)
\* answer.  The destination is named after a fresh identifier, so its stat
\* depends on no other callback and is taken with the source's.
CopyStat(tk) ==
    /\ tk.pc = "copyStat"
    /\ LET dst == newFilePath(tk.path, tk.id) IN
       IF exists(tk.path) /\ exists(dst) /\ SameSize(Size(disk[dst]), Size(disk[tk.path]))
       THEN SetTask(tk, [tk EXCEPT !.pc = "unlink", !.copied = TRUE])
       ELSE SetTask(tk, CopyFailed(tk))
    /\ UNCHANGED <<disk, files, nextId, processedFiles, pendingAdd, delivered, dropped, faultCount>> /\ UNCHANGED <<syncVars, apiVars, netVars, printVars>>

\* monitor.js:150-154 fs.promises.unlink(filePath) answers (ENOENT is caught
\* and logged when the file is already gone)
Unlink(tk) ==
    /\ tk.pc = "unlink"
    /\ disk' = [disk EXCEPT ![tk.path] = 0]
    /\ pendingAdd' = pendingAdd \ {tk.path}
    /\ Disappears(tk.path)
    /\ SetTask(tk, Return(tk))
    /\ UNCHANGED <<files, nextId, processedFiles, dropped, faultCount, delivered>>
    /\ UNCHANGED <<syncVars, apiVars, netVars, job, printLog>>

\* unlink throws on a file that is there: caught and logged, monitor.js:152
UnlinkFail(tk) ==
    /\ faultCount < MaxFaults
    /\ faultCount' = faultCount + 1
    /\ tk.pc = "unlink"
    /\ exists(tk.path)
    /\ SetTask(tk, Return(tk))
    /\ UNCHANGED <<disk, files, nextId, processedFiles, pendingAdd, delivered, dropped>> /\ UNCHANGED <<syncVars, apiVars, netVars, printVars>>

\* monitor.js:155-157 FilesModel.delete(id) answers
Rollback(tk) ==
    /\ tk.pc = "rollback"
    /\ files' = FilesDelete(tk.id)
    /\ SetTask(tk, Return(tk))
    /\ UNCHANGED <<disk, nextId, processedFiles, pendingAdd, delivered, dropped, faultCount>> /\ UNCHANGED <<syncVars, apiVars, netVars, printVars>>

\* FilesModel.delete fails and returns { message }: the record stays live
RollbackFail(tk) ==
    /\ faultCount < MaxFaults
    /\ faultCount' = faultCount + 1
    /\ tk.pc = "rollback"
    /\ HasId(FilesGetById(tk.id))
    /\ SetTask(tk, Return(tk))
    /\ UNCHANGED <<disk, files, nextId, processedFiles, pendingAdd, delivered, dropped>> /\ UNCHANGED <<syncVars, apiVars, netVars, printVars>>

(***************************************************************************)
(* Printer fleet: descriptors, the printers table, the CUPS queues.        *)
(***************************************************************************)
PrinterIds == 1..MaxPrinters
Names == {"lp1", "lp2"}
PrinterIp == "10.0.0.1"
NoId == 0
NoName == ""
NoIp == ""

\* one element of request.body.printers: id, name, ip_address, whether a
\* mac_address is given, and connectivity.port.open ("absent": not given)
MkDescriptor(id, name, ip, mac, conn) ==
    [id |-> id, name |-> name, ip |-> ip, mac |-> mac, conn |-> conn]

NoDescriptor == MkDescriptor(NoId, NoName, NoIp, FALSE, "absent")

\* every descriptor is taken as complete
MissingIdOrName_Never(d) == FALSE

\* printers.js:72 and :400  !id || !name
MissingIdOrName(d) == d.id = NoId \/ d.name = NoName

\* the descriptors a desktop agent sends (one representative of each kind
\* of incomplete descriptor and of the descriptors without address)
DesktopDescriptors ==
    {d \in [id : PrinterIds \cup {NoId}, name : Names \cup {NoName},
            ip : {NoIp, PrinterIp}, mac : {TRUE},
            conn : {"open", "closed", "absent"}] :
        (MissingIdOrName(d) \/ d.ip = NoIp) => (d.ip = NoIp /\ d.conn = "absent")}

\* the descriptors the MAC-based variant receives: no address, the MAC
\* address may be missing
MacDescriptors ==
    {d \in [id : PrinterIds \cup {NoId}, name : Names \cup {NoName},
            ip : {NoIp}, mac : BOOLEAN, conn : {"absent"}] :
        MissingIdOrName(d) => d.mac}

\* the batches of at most MaxBatch descriptors drawn from D
Batches(D) == UNION {[1..n -> D] : n \in 0..MaxBatch}

\* a row of the printers table; NoRecord stands for "no row with this id"
PrinterRecord(name, ip) == [name |-> name, ip |-> ip, deleted |-> FALSE]
NoRecord == [name |-> NoName, ip |-> NoIp, deleted |-> FALSE]

HasRow(id) == id \in PrinterIds /\ printers[id] # NoRecord
IsLive(id) == HasRow(id) /\ ~printers[id].deleted

\* part_007:10-34 getAll: the rows WHERE deletedAt IS NULL, as [id, name]
PrinterGetAll ==
    LET row(i) == [id |-> i, name |-> printers[i].name]
    IN  SelectSeq([i \in 1..MaxPrinters |-> row(i)], LAMBDA r : IsLive(r.id))

\* part_007:41-61 getById: the row WHERE id = $1 AND deletedAt IS NULL
PrinterGetById(id) == IF IsLive(id) THEN {printers[id]} ELSE {}

\* part_007:95-121 insert: the database refuses a second row with the id
PrinterInsertAccepted(id) == ~HasRow(id)
PrinterInsert(id, name, ip) == [printers EXCEPT ![id] = PrinterRecord(name, ip)]

\* part_007:128-160 update: SET name, ..., ip_address WHERE id = $12
PrinterUpdate(id, name, ip) == [printers EXCEPT ![id].name = name, ![id].ip = ip]

\* part_007:167-189 delete: SET deletedAt WHERE id = $1
PrinterDelete(id) == [printers EXCEPT ![id].deleted = TRUE]

\* the queue lpadmin knows under a name
HasQueue(name) == \E q \in cups : q.name = name
CupsRemove(name) == {q \in cups : q.name # name}
CupsSet(name, ip) == CupsRemove(name) \cup {[name |-> name, ip |-> ip]}

\* cups.js:15-118 setupPrinter returns {success: false}: before anything
\* ran (line 42), after lpadmin -x removed the queue and lpadmin -p failed
\* (lines 48, 98), or after the queue was created and cupsenable or
\* cupsaccept failed (lines 101, 104)
SetupFailureOutcomes(name, ip) == {cups, CupsRemove(name), CupsSet(name, ip)}

\* one CUPS or store call of the reconciler call in flight
Event(op, id, name, ok) == [op |-> op, id |-> id, name |-> name, ok |-> ok]
Logged(op, id, name, ok) == log' = Append(log, Event(op, id, name, ok))

\* printers.js:39-51 and :367-373 the result of a sync call
NoResults ==
    [created |-> 0, updated |-> 0, unchanged |-> 0, deleted |-> 0, skipped |-> 0,
     warnings |-> <<>>, errors |-> <<>>]

\* the reconciler call in flight (snapshot: what Printer.getAll answered,
\* dbPrinters: the rows of it still to be visited): kind "desktop" and "mac" are the two
\* syncPrinters handlers, "create" and "update" the exported methods
\* _createPrinter and _updatePrinterIfNeeded called on the controller
IdleCall ==
    [kind |-> "none", pc |-> "done", request |-> <<>>, batch |-> <<>>,
     d |-> NoDescriptor, exists |-> FALSE, isConnected |-> FALSE,
     printerWasSetUp |-> FALSE, dbPrinters |-> <<>>, cur |-> NoRecord,
     nameChanged |-> FALSE, thrown |-> FALSE, hadRow |-> {},
     reachable |-> FALSE, response |-> "none", snapshot |-> <<>>]

\* the printFile call in flight (part_001:102-155): the request body, the
\* file row and the printer name it has loaded, and its response
IdleJob ==
    [pc |-> "idle", fileId |-> 0, assetId |-> 0, file |-> {}, printerName |-> NoName,
     response |-> "none"]

(***************************************************************************)
(* File names and cleanFileName (part_005:426-470).  A name is a sequence  *)
(* of pieces; a piece is a character, or a run of characters that every    *)
(* pattern of cleanFileName takes or leaves as a whole.  Pieces are        *)
(* written in one case (the patterns are case-insensitive), "Word" stands  *)
(* for the application names of the second pattern, "txt" for the document *)
(* extensions, 303_263 for the fifteen accent codes.                       *)
(***************************************************************************)
Letters == {"a", "pdf", "txt", "job", "Word"}
Digits == {"1", "303", "263"}
Whitespace == {" "}
Underscore == {"_"}
Dashes == {"-"}
Accented == {"o'"}
\* [_\s]
SpaceOrUnderscore == Underscore \cup Whitespace
\* [A-Za-zÀ-ÖØ-öø-ÿ0-9\s]
WordClass == Letters \cup Digits \cup Whitespace \cup Accented
Apps == {"Word"}
DocExts == {"txt"}
AccentCode == <<"303", "_", "263">>
Accent == "o'"

\* the names handed to cleanFileName: up to MaxParts parts in a row
MaxParts == 4
Parts ==
    {<<"a">>, <<"_">>, <<" ">>, <<"-">>, <<"Word">>, <<"-", "job", "_", "1">>,
     <<".", "pdf">>, <<".", "txt">>, <<"303", "_", "263">>}

RECURSIVE Joined(_)
Joined(n) == IF n = 0 THEN {<<>>} ELSE {s \o p : s \in Joined(n - 1), p \in Parts \cup {<<>>}}

FileNames == Joined(MaxParts)

\* a JavaScript value: a string, or undefined
Str(s) == [isString |-> TRUE, chars |-> s]
Undefined == [isString |-> FALSE, chars |-> <<>>]
Pending == [pc |-> "pending", value |-> Undefined]

\* the piece at i ("": past either end)
CharAt(s, i) == IF i \in DOMAIN s THEN s[i] ELSE ""

\* where the longest run of pieces of class C that starts at i ends
\* (i - 1: no such piece at i)
RECURSIVE RunEnd(_, _, _)
RunEnd(s, i, C) == IF CharAt(s, i) \in C THEN RunEnd(s, i + 1, C) ELSE i - 1

\* String.replace without the g flag: the leftmost place the pattern
\* matches from (0: nowhere)
First(s, MatchAt(_, _)) ==
    IF \E i \in DOMAIN s : MatchAt(s, i)
    THEN CHOOSE i \in DOMAIN s : MatchAt(s, i) /\ \A j \in 1..(i - 1) : ~MatchAt(s, j)
    ELSE 0

\* s with s[i..j] replaced by r
Cut(s, i, j, r) == SubSeq(s, 1, i - 1) \o r \o SubSeq(s, j + 1, Len(s))

EndsWith(s, t) == Len(s) >= Len(t) /\ SubSeq(s, Len(s) - Len(t) + 1, Len(s)) = t

\* part_005:428 /-job_\d+\.pdf$/i matches from i
JobSuffixAt(s, i) ==
    /\ CharAt(s, i) = "-" /\ CharAt(s, i + 1) = "job" /\ CharAt(s, i + 2) = "_"
    /\ RunEnd(s, i + 3, Digits) >= i + 3
    /\ RunEnd(s, i + 3, Digits) = Len(s) - 2
    /\ EndsWith(s, <<".", "pdf">>)

\* part_005:428 replace(/-job_\d+\.pdf$/i, '.pdf')
StripJob(s) ==
    LET i == First(s, JobSuffixAt)
    IN  IF i = 0 THEN s ELSE Cut(s, i, Len(s), <<".", "pdf">>)

\* part_005:430 (?:[_\s]*[-][-]*[_\s]*|[_\s]+-) from i: where the
\* application name starts (0: no match).  The second alternative matches
\* nothing the first does not.
AppStart(s, i) ==
    LET a == RunEnd(s, i, SpaceOrUnderscore)
        b == RunEnd(s, a + 1, Dashes)
        c == RunEnd(s, b + 1, SpaceOrUnderscore)
    IN  IF b > a /\ CharAt(s, c + 1) \in Apps THEN c + 1 ELSE 0

\* part_005:430 (?:\s*[-][_\s]*|[_\s]+) after the application name at w:
\* where the match ends (0: no match)
AppEnd(s, w) ==
    LET sp == RunEnd(s, w + 1, Whitespace)
        u == RunEnd(s, w + 1, SpaceOrUnderscore)
    IN  IF CharAt(s, sp + 1) \in Dashes THEN RunEnd(s, sp + 2, SpaceOrUnderscore)
        ELSE IF u > w THEN u ELSE 0

AppAt(s, i) == AppStart(s, i) # 0 /\ AppEnd(s, AppStart(s, i)) # 0

\* part_005:430 the first application name with its separators is removed
StripApp(s) ==
    LET i == First(s, AppAt)
    IN  IF i = 0 THEN s ELSE Cut(s, i, AppEnd(s, AppStart(s, i)), <<>>)

\* part_005:432 (?:_-_|_-|\s-\s|\s-|-), in the order they are tried
TrailerSeparators ==
    <<<<Underscore, Dashes, Underscore>>, <<Underscore, Dashes>>,
      <<Whitespace, Dashes, Whitespace>>, <<Whitespace, Dashes>>, <<Dashes>>>>

SeparatorAt(s, i, sep) == \A k \in DOMAIN sep : CharAt(s, i + k - 1) \in sep[k]

\* part_005:432 (?=-job_|\.|$) at k
TrailerStop(s, k) ==
    \/ k = Len(s) + 1
    \/ CharAt(s, k) = "."
    \/ CharAt(s, k) = "-" /\ CharAt(s, k + 1) = "job" /\ CharAt(s, k + 2) = "_"

\* part_005:432 [A-Za-z...0-9\s]+ from j and then the lookahead: where the
\* run ends (0: no match)
TrailerBodyEnd(s, j) ==
    LET e == RunEnd(s, j, WordClass)
    IN  IF e >= j /\ TrailerStop(s, e + 1) THEN e ELSE 0

\* the alternatives that lead to a match from i
TrailerChoices(s, i) ==
    {a \in DOMAIN TrailerSeparators :
        /\ SeparatorAt(s, i, TrailerSeparators[a])
        /\ TrailerBodyEnd(s, i + Len(TrailerSeparators[a])) # 0}

TrailerAt(s, i) == TrailerChoices(s, i) # {}

\* part_005:432 the first "-words" trailer before the extension is removed
StripTrailer(s) ==
    LET i == First(s, TrailerAt)
    IN  IF i = 0 THEN s
        ELSE LET a == CHOOSE x \in TrailerChoices(s, i) : \A y \in TrailerChoices(s, i) : x <= y
             IN  Cut(s, i, TrailerBodyEnd(s, i + Len(TrailerSeparators[a])), <<>>)

\* part_005:434-455 replace(/_code|_code_|code/g, accent)
RECURSIVE Accents(_)
Accents(s) ==
    IF s = <<>> THEN <<>>
    ELSE IF Head(s) = "_" /\ Len(s) >= 4 /\ SubSeq(s, 2, 4) = AccentCode
    THEN <<Accent>> \o Accents(SubSeq(s, 5, Len(s)))
    ELSE IF Len(s) >= 3 /\ SubSeq(s, 1, 3) = AccentCode
    THEN <<Accent>> \o Accents(SubSeq(s, 4, Len(s)))
    ELSE <<Head(s)>> \o Accents(Tail(s))

\* part_005:457 replace(/_/g, ' ')
Underscores(s) == [i \in DOMAIN s |-> IF s[i] = "_" THEN " " ELSE s[i]]

\* part_005:459 a document extension before .pdf at the end is dropped
DocExtAtEnd(s) == \E e \in DocExts : EndsWith(s, <<".", e, ".", "pdf">>)

StripDocExt(s) == IF DocExtAtEnd(s) THEN Cut(s, Len(s) - 3, Len(s), <<".", "pdf">>) ELSE s

\* part_005:461 replace(/\s+/g, ' ')
RECURSIVE Collapse(_)
Collapse(s) ==
    IF s = <<>> THEN <<>>
    ELSE IF Head(s) \in Whitespace
    THEN <<" ">> \o Collapse(SubSeq(s, RunEnd(s, 1, Whitespace) + 1, Len(s)))
    ELSE <<Head(s)>> \o Collapse(Tail(s))

\* part_005:461 trim()
RECURSIVE Trim(_)
Trim(s) ==
    IF s = <<>> THEN s
    ELSE IF Head(s) \in Whitespace THEN Trim(Tail(s))
    ELSE IF s[Len(s)] \in Whitespace THEN Trim(SubSeq(s, 1, Len(s) - 1))
    ELSE s

\* part_005:463 replace(/\.pdf\.pdf$/i, '.pdf')
StripPdfPdf(s) ==
    IF EndsWith(s, <<".", "pdf", ".", "pdf">>) THEN SubSeq(s, 1, Len(s) - 2) ELSE s

\* part_005:428-465 the body of the try block
CleanName(s) ==
    StripPdfPdf(Trim(Collapse(StripDocExt(Underscores(Accents(
        StripTrailer(StripApp(StripJob(s)))))))))

\* cleanFileName without its catch
cleanFileName_NoCatch(name) ==
    IF name.isString
    THEN [pc |-> "returned", value |-> Str(CleanName(name.chars))]
    ELSE [pc |-> "thrown", value |-> Undefined]

\* part_005:426-470 cleanFileName.  A value that is no string has no
\* replace method: the TypeError is caught and the argument is returned.
cleanFileName(name) ==
    IF name.isString
    THEN [pc |-> "returned", value |-> Str(CleanName(name.chars))]
    ELSE [pc |-> "returned", value |-> name]

\* no peer address is cached, nothing was notified, cleanFileName was not
\* called
ApiQuiet ==
    /\ activeApiIPs = <<>>
    /\ notifications = {}
    /\ fileNameSave = Undefined
    /\ cleanResult = Pending

\* network.js:80 no getIpFromMac call is in flight
IdleLookup == [pc |-> "idle", ran |-> <<>>, result |-> NoIp]

\* cups.js:272 no discoverIppPath call is in flight
IdleProbe ==
    [pc |-> "idle", protocol |-> "", tried |-> <<>>, uri |-> "",
     isConnected |-> FALSE, ippPathVerified |-> ""]

\* cups.js:15 no setupPrinter call is in flight and none was made
IdleSetup ==
    [pc |-> "idle", printerData |-> [name |-> NoName], printerUri |-> "",
     calls |-> 0, uris |-> <<>>, once |-> {}]

\* nothing is looked up, probed or set up
NetQuiet == lookup = IdleLookup /\ probe = IdleProbe /\ setup = IdleSetup

\* no printFile call is in flight
PrintQuiet == job = IdleJob /\ printLog = <<>> /\ pendingUnlink = {} /\ aged = {}

\* a request handler of syncPrinters: the locals and the result lists of
\* its call
Handlers == 1..MaxHandlers
IdleHandler == [call |-> IdleCall, res |-> NoResults]

\* no reconciler call has run yet: empty table, no queue
SyncQuiet ==
    /\ handlers = [h \in Handlers |-> IdleHandler]
    /\ cups = {}
    /\ printers = [i \in PrinterIds |-> NoRecord]
    /\ call = IdleCall
    /\ syncResults = NoResults
    /\ log = <<>>
    /\ syncFaults = 0
    /\ PrintQuiet

(***************************************************************************)
(* The ingestion pipeline as a whole.                                      *)
(***************************************************************************)
MonInit ==
    /\ disk = [p \in AllPaths |-> 0]
    /\ files = {}
    /\ nextId = 0
    /\ processedFiles = {}
    /\ pendingAdd = {}
    /\ delivered = {}
    /\ tasks = EmptyBag
    /\ dropped = {}
    /\ faultCount = 0
    /\ ApiQuiet
    /\ NetQuiet
    /\ SyncQuiet

\* the steps taken when the store and the filesystem answer without error
MonStep ==
    \/ \E p \in DropPaths, c \in PageCounts : Drop(p, c)
    \/ \E p \in AllPaths : WatcherAdd(p)
    \/ SweepStart
    \/ \E tk \in Running : WatchTimer(tk)
    \/ \E tk \in Running : WatchCooldown(tk)
    \/ \E tk \in Running : SweepStat(tk)
    \/ \E tk \in Running : SweepGetById(tk)
    \/ \E tk \in Running : GetById(tk)
    \/ \E tk \in Running : GetPages(tk)
    \/ \E tk \in Running : Insert(tk)
    \/ \E tk \in Running : CopyRead(tk)
    \/ \E tk \in Running : CopyWrite(tk)
    \/ \E tk \in Running : CopyStat(tk)
    \/ \E tk \in Running : Unlink(tk)
    \/ \E tk \in Running : Rollback(tk)

\* the failures of the store and the filesystem
MonFault ==
    \/ \E tk \in Running : SweepGetByIdFail(tk)
    \/ \E tk \in Running : GetByIdFail(tk)
    \/ \E tk \in Running : GetPagesFail(tk)
    \/ \E tk \in Running : InsertFail(tk)
    \/ \E tk \in Running : CopyWriteFail(tk)
    \/ \E tk \in Running : UnlinkFail(tk)
    \/ \E tk \in Running : RollbackFail(tk)

MonNext == MonStep \/ MonFault

MonSpec == MonInit /\ [][MonNext]_vars

\* no store or filesystem failure
MonOkSpec == MonInit /\ [][MonStep]_vars

TypeOK ==
    /\ disk \in [AllPaths -> {0} \cup PageCounts]
    /\ nextId \in 0..MaxIds
    /\ processedFiles \subseteq AllPaths
    /\ pendingAdd \subseteq {p \in AllPaths : exists(p)}
    /\ \A r \in files : r.id \in Ids /\ r.path \in CanonPaths \cup UpperCanonPaths
    /\ \A tk \in Running : tk.kind \in {"watch", "sweep", "unlink", "clean", "change"}
    /\ BagCardinality(tasks) <= MaxProcs
    /\ dropped \subseteq DropPaths \cup TxtPaths \cup RootPaths \cup UpperPaths
    /\ faultCount \in 0..MaxFaults

\* timers keep firing and every awaited call of a running callback answers;
\* a watcher event may never be delivered
MonFairness ==
    /\ WF_vars(SweepStart)
    /\ WF_vars(\E tk \in Running : WatchTimer(tk))
    /\ WF_vars(\E tk \in Running : WatchCooldown(tk))
    /\ WF_vars(\E tk \in Running : SweepStat(tk))
    /\ WF_vars(\E tk \in Running : SweepGetById(tk))
    /\ WF_vars(\E tk \in Running : GetById(tk))
    /\ WF_vars(\E tk \in Running : GetPages(tk))
    /\ WF_vars(\E tk \in Running : Insert(tk))
    /\ WF_vars(\E tk \in Running : CopyRead(tk))
    /\ WF_vars(\E tk \in Running : CopyWrite(tk))
    /\ WF_vars(\E tk \in Running : CopyStat(tk))
    /\ WF_vars(\E tk \in Running : Unlink(tk))
    /\ WF_vars(\E tk \in Running : Rollback(tk))

MonLiveSpec == MonInit /\ [][MonStep]_vars /\ MonFairness

(***************************************************************************)
(* Claims about the ingestion pipeline.                                    *)
(***************************************************************************)
FileNameOf(p) == [base |-> basenameNoExt(p), ext |-> extname(p)]

LiveRecordsOf(p) == {r \in files : r.fileName = FileNameOf(p) /\ ~r.deleted}

\* C1: however the processNewFile invocations on the path of a dropped,
\* non-canonically named PDF interleave (watcher callback against sweep,
\* two sweeps), once they have all returned there is exactly one FileRecord
\* for the dropped file.
C1_OneRecordPerDroppedFile ==
    \A p \in dropped :
        (tasks = EmptyBag /\ ~exists(p)) => Cardinality(LiveRecordsOf(p)) = 1

\* the registration of the callback tk, whose copy succeeded, is complete:
\* its record exists with the canonical path, the canonical file exists and
\* the original is gone
Materialized(tk) ==
    LET dst == newFilePath(tk.path, tk.id) IN
    /\ \E r \in files : r.id = tk.id /\ r.path = dst
    /\ exists(dst)
    /\ ~exists(tk.path)

\* processNewFile returns from a registration whose copy succeeded
FinishesCopied(tk) == tk.pc = "unlink" /\ (Unlink(tk) \/ UnlinkFail(tk))

\* C6: whenever processNewFile finishes a registration whose copy
\* succeeded, the FileRecord of that file exists with path <dir>/<id><ext>,
\* a file exists at that path and the original path no longer exists.
C6_RoundTripRename ==
    [][\A tk \in Running : FinishesCopied(tk) => Materialized(tk)']_vars

\* the store answers getById with a record for the identifier-named file
\* the callback tk asks about
StoreReturnsRecord(tk) ==
    /\ tk.pc \in {"getById", "sweepGetById"}
    /\ (GetById(tk) \/ SweepGetById(tk))
    /\ FilesGetById(basenameNoExt(tk.path)) # {}

\* C7: a file whose base name is a valid identifier and for which the
\* store returns a record is never re-registered: no FileRecord is
\* inserted, no canonical file is created, the file is not deleted, and no
\* identifier is generated for it.
C7_KnownIdentifierSkipped ==
    [][\A tk \in Running :
          StoreReturnsRecord(tk) =>
              /\ files' = files
              /\ disk' = disk
              /\ nextId' = nextId
              /\ tasks' = (tasks (-) SetToBag({tk})) (+)
                          (IF Return(tk) = IdleTask THEN EmptyBag ELSE SetToBag({Return(tk)}))]_vars

\* a watcher callback has skipped an identifier-named file with a record
C7_Witness ==
    \E tk \in Running :
        /\ tk.kind = "watch" /\ tk.pc = "cooldown"
        /\ uuidValidate(basenameNoExt(tk.path))
        /\ exists(tk.path)
        /\ FilesGetById(basenameNoExt(tk.path)) # {}
        /\ nextId = 1
        /\ faultCount = 0

\* the dropped file p is registered: a live record with a generated id,
\* the document's page count, printed = false and the canonical path; the
\* canonical file exists and the dropped name is gone
Registered(p) ==
    /\ ~exists(p)
    /\ \E r \in files :
          /\ r.id \in Ids
          /\ r.fileName = FileNameOf(p)
          /\ r.pages \in PageCounts
          /\ ~r.printed /\ ~r.deleted
          /\ r.path = newFilePath(p, r.id)
          /\ exists(r.path)
          /\ PageCount(disk[r.path]) = r.pages

\* C8: a valid PDF dropped with a non-canonical name is eventually
\* registered, also when its watcher event is never delivered (store and
\* filesystem answer without error, timers keep firing).
C8_EventuallyRegistered ==
    \A p \in DropPaths : (p \in dropped) ~> Registered(p)

\* registered by a sweep alone: no 'add' callback ever ran
C8_Witness ==
    \E p \in DropPaths : Registered(p) /\ delivered = {}

(***************************************************************************)
(* The printer reconciler.  One call runs at a time; every awaited CUPS    *)
(* or store call is one step.                                              *)
(***************************************************************************)
\* a failure of CUPS or of the store is injected into the call
Fault == syncFaults < MaxSyncFaults /\ syncFaults' = syncFaults + 1

PushError(res, id) == [res EXCEPT !.errors = Append(@, id)]
PushWarning(res, id) == [res EXCEPT !.warnings = Append(@, id)]

\* the locals of a call that begins
NewCall(kind, pc, batch, d) ==
    [IdleCall EXCEPT !.kind = kind, !.pc = pc, !.request = batch, !.batch = batch,
                     !.d = d, !.hadRow = {i \in PrinterIds : HasRow(i)}]

\* a call begins as c with the result lists res, when none is in flight
Begin(c, res) ==
    /\ call = IdleCall
    /\ call' = c
    /\ syncResults' = res
    /\ UNCHANGED <<log, syncFaults>>

\* the response has been sent, or the method's promise has settled: the
\* locals of the call are gone
Finish ==
    /\ call.pc = "done" /\ call.kind # "none"
    /\ call' = IdleCall
    /\ syncResults' = NoResults
    /\ log' = <<>>
    /\ syncFaults' = 0
    /\ UNCHANGED <<cups, printers>> /\ UNCHANGED <<monVars, apiVars, netVars, printVars, handlers>>

\* the call returns (printers.js:306, :474) or its promise settles
Done(c) == [c EXCEPT !.pc = "done", !.response = "success"]
Thrown(c) == [c EXCEPT !.pc = "done", !.thrown = TRUE]

(***************************************************************************)
(* syncPrinters, desktop-agent variant, printers.js:14-322                 *)
(***************************************************************************)
\* no row is taken as sent by the client
ClientPrinterIds_None(batch) == {}

\* printers.js:36 new Set(printers.map(p => p.id))
ClientPrinterIds(batch) == {batch[i].id : i \in DOMAIN batch}

\* printers.js:257-261 the rows of the snapshot the client did not send
DesktopDeletion(c) ==
    LET rest == SelectSeq(c.dbPrinters,
                          LAMBDA r : r.id \notin ClientPrinterIds(c.request))
    IN  IF rest = <<>> THEN Done([c EXCEPT !.dbPrinters = <<>>])
        ELSE [c EXCEPT !.dbPrinters = rest, !.pc = "delRemove"]

\* printers.js:54-83 the loop up to its next await
RECURSIVE DesktopLoop(_, _)
DesktopLoop(c, res) ==
    IF c.batch = <<>>
    THEN [call |-> DesktopDeletion(c), res |-> res]
    ELSE LET d == Head(c.batch) IN
         IF MissingIdOrName(d)
         THEN DesktopLoop([c EXCEPT !.batch = Tail(@)],
                          [PushError(res, d.id) EXCEPT !.skipped = @ + 1])
         ELSE [call |-> [c EXCEPT !.batch = Tail(@), !.d = d, !.pc = "getById",
                                  !.exists = FALSE, !.isConnected = FALSE,
                                  !.printerWasSetUp = FALSE],
               res |-> res]

\* printers.js:122 ip_address && isConnected
CanConfigure(ip, isConnected) == ip # NoIp /\ isConnected

\* the descriptor is stored without a configured queue and nothing is told
WarnNotConfigured_Silent(res, id) == res

\* printers.js:144-149, 154-159, 162-173 the warning of a descriptor whose
\* queue was not configured
WarnNotConfigured(res, id) == PushWarning(res, id)

\* printers.js:119-174 after the connectivity is known
DesktopAfterProbe(c, res) ==
    IF CanConfigure(c.d.ip, c.isConnected)
    THEN [call |-> [c EXCEPT !.pc = "setup"], res |-> res]
    ELSE [call |-> [c EXCEPT !.pc = "write"], res |-> WarnNotConfigured(res, c.d.id)]

\* printers.js:84-117 after Printer.getById
DesktopAfterGetById(c, res) ==
    IF c.d.conn # "absent"
    THEN DesktopAfterProbe([c EXCEPT !.isConnected = (c.d.conn = "open")], res)
    ELSE IF c.d.ip # NoIp
         THEN [call |-> [c EXCEPT !.pc = "probe"], res |-> res]
         ELSE DesktopAfterProbe(c, res)

DesktopSyncPrinters(batch) ==
    /\ Begin(NewCall("desktop", "getAll", batch, NoDescriptor), NoResults)
    /\ UNCHANGED <<cups, printers>> /\ UNCHANGED <<monVars, apiVars, netVars, printVars, handlers>>

\* printers.js:27 Printer.getAll answers
DGetAll ==
    /\ call.kind = "desktop" /\ call.pc = "getAll"
    /\ LET r == DesktopLoop([call EXCEPT !.dbPrinters = PrinterGetAll,
                                        !.snapshot = PrinterGetAll], syncResults)
       IN  call' = r.call /\ syncResults' = r.res
    /\ UNCHANGED <<cups, printers, log, syncFaults>> /\ UNCHANGED <<monVars, apiVars, netVars, printVars, handlers>>

\* printers.js:29-33 Printer.getAll answers {message}
DGetAllFail ==
    /\ call.kind = "desktop" /\ call.pc = "getAll"
    /\ Fault
    /\ call' = [call EXCEPT !.pc = "done", !.response = "badRequest"]
    /\ UNCHANGED <<cups, printers, syncResults, log>> /\ UNCHANGED <<monVars, apiVars, netVars, printVars, handlers>>

\* printers.js:83-84 Printer.getById answers
DGetById ==
    /\ call.kind = "desktop" /\ call.pc = "getById"
    /\ LET r == DesktopAfterGetById(
                   [call EXCEPT !.exists = (PrinterGetById(call.d.id) # {})],
                   syncResults)
       IN  call' = r.call /\ syncResults' = r.res
    /\ UNCHANGED <<cups, printers, log, syncFaults>> /\ UNCHANGED <<monVars, apiVars, netVars, printVars, handlers>>

\* Printer.getById answers {message}: existingPrinter.id is undefined
DGetByIdFail ==
    /\ call.kind = "desktop" /\ call.pc = "getById"
    /\ Fault
    /\ LET r == DesktopAfterGetById([call EXCEPT !.exists = FALSE], syncResults)
       IN  call' = r.call /\ syncResults' = r.res
    /\ UNCHANGED <<cups, printers, log>> /\ UNCHANGED <<monVars, apiVars, netVars, printVars, handlers>>

\* printers.js:93-117 testIppEndpoint / testPrinterConnection answers (an
\* exception leaves isConnected false)
DProbe ==
    /\ call.kind = "desktop" /\ call.pc = "probe"
    /\ \E open \in BOOLEAN :
          LET r == DesktopAfterProbe([call EXCEPT !.isConnected = open], syncResults)
          IN  call' = r.call /\ syncResults' = r.res
    /\ UNCHANGED <<cups, printers, log, syncFaults>> /\ UNCHANGED <<monVars, apiVars, netVars, printVars, handlers>>

\* printers.js:138-142 setupPrinter answers {success: true}
DSetup ==
    /\ call.kind = "desktop" /\ call.pc = "setup"
    /\ cups' = CupsSet(call.d.name, call.d.ip)
    /\ Logged("setupPrinter", call.d.id, call.d.name, TRUE)
    /\ call' = [call EXCEPT !.pc = "write", !.printerWasSetUp = TRUE]
    /\ UNCHANGED <<printers, syncResults, syncFaults>> /\ UNCHANGED <<monVars, apiVars, netVars, printVars, handlers>>

\* printers.js:143-151 setupPrinter answers {success: false}
DSetupFail ==
    /\ call.kind = "desktop" /\ call.pc = "setup"
    /\ Fault
    /\ cups' \in SetupFailureOutcomes(call.d.name, call.d.ip)
    /\ Logged("setupPrinter", call.d.id, call.d.name, FALSE)
    /\ syncResults' = WarnNotConfigured(syncResults, call.d.id)
    /\ call' = [call EXCEPT !.pc = "write"]
    /\ UNCHANGED printers /\ UNCHANGED <<monVars, apiVars, netVars, printVars, handlers>>

\* printers.js:179-235 Printer.update / Printer.insert answers
DWrite ==
    /\ call.kind = "desktop" /\ call.pc = "write"
    /\ LET d == call.d
           ok == call.exists \/ PrinterInsertAccepted(d.id)
           res == IF call.exists THEN [syncResults EXCEPT !.updated = @ + 1]
                  ELSE IF ok THEN [syncResults EXCEPT !.created = @ + 1]
                  ELSE PushError(syncResults, d.id)
           r == DesktopLoop(call, res)
       IN  /\ printers' = IF call.exists THEN PrinterUpdate(d.id, d.name, d.ip)
                          ELSE IF ok THEN PrinterInsert(d.id, d.name, d.ip)
                          ELSE printers
           /\ Logged(IF call.exists THEN "update" ELSE "insert", d.id, d.name, ok)
           /\ call' = r.call /\ syncResults' = r.res
    /\ UNCHANGED <<cups, syncFaults>> /\ UNCHANGED <<monVars, apiVars, netVars, printVars, handlers>>

\* printers.js:200-206, 228-234 the store answers {message}: an error is
\* listed; the catch of line 236 is not entered
DWriteFail ==
    /\ call.kind = "desktop" /\ call.pc = "write"
    /\ Fault
    /\ LET r == DesktopLoop(call, PushError(syncResults, call.d.id))
       IN  call' = r.call /\ syncResults' = r.res
    /\ Logged(IF call.exists THEN "update" ELSE "insert", call.d.id, call.d.name, FALSE)
    /\ UNCHANGED <<cups, printers>> /\ UNCHANGED <<monVars, apiVars, netVars, printVars, handlers>>

\* printers.js:259-290 the next row to delete, or the response
DesktopNextDeletion(c) ==
    IF Tail(c.dbPrinters) = <<>> THEN Done([c EXCEPT !.dbPrinters = <<>>])
    ELSE [c EXCEPT !.dbPrinters = Tail(@), !.pc = "delRemove"]

\* printers.js:264 removePrinter(dbPrinter.name) answers (lpadmin -x fails
\* on a queue that is not there); the answer is not looked at
DDelRemove ==
    /\ call.kind = "desktop" /\ call.pc = "delRemove"
    /\ LET r == Head(call.dbPrinters) IN
          /\ cups' = CupsRemove(r.name)
          /\ Logged("removePrinter", r.id, r.name, HasQueue(r.name))
    /\ call' = [call EXCEPT !.pc = "delDelete"]
    /\ UNCHANGED <<printers, syncResults, syncFaults>> /\ UNCHANGED <<monVars, apiVars, netVars, printVars, handlers>>

\* lpadmin -x fails on a queue that is there
DDelRemoveFail ==
    /\ call.kind = "desktop" /\ call.pc = "delRemove"
    /\ Fault
    /\ LET r == Head(call.dbPrinters) IN
          /\ HasQueue(r.name)
          /\ Logged("removePrinter", r.id, r.name, FALSE)
    /\ call' = [call EXCEPT !.pc = "delDelete"]
    /\ UNCHANGED <<cups, printers, syncResults>> /\ UNCHANGED <<monVars, apiVars, netVars, printVars, handlers>>

\* printers.js:268-272 Printer.delete answers
DDelDelete ==
    /\ call.kind = "desktop" /\ call.pc = "delDelete"
    /\ LET r == Head(call.dbPrinters) IN
          /\ printers' = PrinterDelete(r.id)
          /\ Logged("delete", r.id, r.name, TRUE)
    /\ syncResults' = [syncResults EXCEPT !.deleted = @ + 1]
    /\ call' = DesktopNextDeletion(call)
    /\ UNCHANGED <<cups, syncFaults>> /\ UNCHANGED <<monVars, apiVars, netVars, printVars, handlers>>

\* printers.js:273-279 Printer.delete answers {message}
DDelDeleteFail ==
    /\ call.kind = "desktop" /\ call.pc = "delDelete"
    /\ Fault
    /\ LET r == Head(call.dbPrinters) IN
          /\ Logged("delete", r.id, r.name, FALSE)
          /\ syncResults' = PushError(syncResults, r.id)
    /\ call' = DesktopNextDeletion(call)
    /\ UNCHANGED <<cups, printers>> /\ UNCHANGED <<monVars, apiVars, netVars, printVars, handlers>>

(***************************************************************************)
(* syncPrinters, MAC-based variant, printers.js:359-497.  The handler is   *)
(* an arrow function of the object literal assigned to module.exports, so  *)
(* its `this` is the module's initial exports object, which has none of    *)
(* the methods: this._testPrinterConnectivity(...) at line 433 throws a    *)
(* TypeError, which the catch of line 463 lists as an error.               *)
(***************************************************************************)
\* printers.js:386-418 the loop up to its next await
RECURSIVE MacLoop(_, _)
MacLoop(c, res) ==
    IF c.batch = <<>>
    THEN [call |-> Done(c), res |-> res]
    ELSE LET d == Head(c.batch) IN
         IF MissingIdOrName(d) \/ ~d.mac
         THEN MacLoop([c EXCEPT !.batch = Tail(@)], PushError(res, d.id))
         ELSE [call |-> [c EXCEPT !.batch = Tail(@), !.d = d, !.pc = "findByMac"],
               res |-> res]

\* reachable: what the ping and port tests answer for the printers of
\* this request
MacSyncPrinters(batch, reachable) ==
    /\ Begin([NewCall("mac", "getAll", batch, NoDescriptor) EXCEPT !.reachable = reachable],
             NoResults)
    /\ UNCHANGED <<cups, printers>> /\ UNCHANGED <<monVars, apiVars, netVars, printVars, handlers>>

\* printers.js:376-383 Printer.getAll answers
MGetAll ==
    /\ call.kind = "mac" /\ call.pc = "getAll"
    /\ LET r == MacLoop([call EXCEPT !.dbPrinters = PrinterGetAll], syncResults)
       IN  call' = r.call /\ syncResults' = r.res
    /\ UNCHANGED <<cups, printers, log, syncFaults>> /\ UNCHANGED <<monVars, apiVars, netVars, printVars, handlers>>

\* Printer.getAll answers {message}: the map stays empty
MGetAllFail ==
    /\ call.kind = "mac" /\ call.pc = "getAll"
    /\ Fault
    /\ LET r == MacLoop(call, syncResults)
       IN  call' = r.call /\ syncResults' = r.res
    /\ UNCHANGED <<cups, printers, log>> /\ UNCHANGED <<monVars, apiVars, netVars, printVars, handlers>>

\* printers.js:418-433, 463-470 findPrinterByMac answers: not found is
\* listed as an error (line 421); found goes on to line 433, whose
\* TypeError is listed as an error (line 465)
MFindPrinterByMac ==
    /\ call.kind = "mac" /\ call.pc = "findByMac"
    /\ \E found \in BOOLEAN :
          LET r == MacLoop([call EXCEPT !.exists = found],
                           PushError(syncResults, call.d.id))
          IN  call' = r.call /\ syncResults' = r.res
    /\ UNCHANGED <<cups, printers, log, syncFaults>> /\ UNCHANGED <<monVars, apiVars, netVars, printVars, handlers>>

(***************************************************************************)
(* _createPrinter(printer, connectivityTest, syncResults),                 *)
(* printers.js:549-625, called as a method of the controller               *)
(***************************************************************************)
CreatePrinter(id, name, overall) ==
    /\ Begin([NewCall("create", "cSetup", <<>>,
                      MkDescriptor(id, name, PrinterIp, TRUE, "absent"))
                 EXCEPT !.isConnected = overall],
             NoResults)
    /\ UNCHANGED <<cups, printers>> /\ UNCHANGED <<monVars, apiVars, netVars, printVars, handlers>>

\* a printer created without connection is listed as a warning and counted
\* as created
CreateOutcome_Both(res, id, overall) ==
    IF ~overall THEN [PushWarning(res, id) EXCEPT !.created = @ + 1]
    ELSE [res EXCEPT !.created = @ + 1]


\* printers.js:609-624 warnings when the printer does not answer, else created
CreateOutcome(res, id, overall) ==
    IF ~overall THEN PushWarning(res, id) ELSE [res EXCEPT !.created = @ + 1]

\* the error is thrown with the queue left as setupPrinter made it
CreateAfterInsertFailure_NoUndo(c) == Thrown(c)

\* printers.js:602-604 dbResult.message: removePrinter comes next
CreateAfterInsertFailure(c) == [c EXCEPT !.pc = "cUndo"]

\* printers.js:568 setupPrinter answers {success: true}
CSetup ==
    /\ call.kind = "create" /\ call.pc = "cSetup"
    /\ cups' = CupsSet(call.d.name, call.d.ip)
    /\ Logged("setupPrinter", call.d.id, call.d.name, TRUE)
    /\ call' = [call EXCEPT !.pc = "cInsert", !.printerWasSetUp = TRUE]
    /\ UNCHANGED <<printers, syncResults, syncFaults>> /\ UNCHANGED <<monVars, apiVars, netVars, printVars, handlers>>

\* printers.js:579-581 setupPrinter answers {success: false}: throw
CSetupFail ==
    /\ call.kind = "create" /\ call.pc = "cSetup"
    /\ Fault
    /\ cups' \in SetupFailureOutcomes(call.d.name, call.d.ip)
    /\ Logged("setupPrinter", call.d.id, call.d.name, FALSE)
    /\ call' = Thrown(call)
    /\ UNCHANGED <<printers, syncResults>> /\ UNCHANGED <<monVars, apiVars, netVars, printVars, handlers>>

\* printers.js:586-624 Printer.insert answers
CInsert ==
    /\ call.kind = "create" /\ call.pc = "cInsert"
    /\ LET d == call.d
           ok == PrinterInsertAccepted(d.id)
       IN  /\ printers' = IF ok THEN PrinterInsert(d.id, d.name, d.ip) ELSE printers
           /\ Logged("insert", d.id, d.name, ok)
           /\ call' = IF ok THEN Done(call) ELSE CreateAfterInsertFailure(call)
           /\ syncResults' = IF ok THEN CreateOutcome(syncResults, d.id, call.isConnected)
                             ELSE syncResults
    /\ UNCHANGED <<cups, syncFaults>> /\ UNCHANGED <<monVars, apiVars, netVars, printVars, handlers>>

\* Printer.insert answers {message}
CInsertFail ==
    /\ call.kind = "create" /\ call.pc = "cInsert"
    /\ Fault
    /\ Logged("insert", call.d.id, call.d.name, FALSE)
    /\ call' = CreateAfterInsertFailure(call)
    /\ UNCHANGED <<cups, printers, syncResults>> /\ UNCHANGED <<monVars, apiVars, netVars, printVars, handlers>>

\* printers.js:604-605 removePrinter(name) answers; the answer is not
\* looked at; throw
CUndo ==
    /\ call.kind = "create" /\ call.pc = "cUndo"
    /\ cups' = CupsRemove(call.d.name)
    /\ Logged("removePrinter", call.d.id, call.d.name, HasQueue(call.d.name))
    /\ call' = Thrown(call)
    /\ UNCHANGED <<printers, syncResults, syncFaults>> /\ UNCHANGED <<monVars, apiVars, netVars, printVars, handlers>>

\* lpadmin -x fails on the queue that is there
CUndoFail ==
    /\ call.kind = "create" /\ call.pc = "cUndo"
    /\ Fault
    /\ HasQueue(call.d.name)
    /\ Logged("removePrinter", call.d.id, call.d.name, FALSE)
    /\ call' = Thrown(call)
    /\ UNCHANGED <<cups, printers, syncResults>> /\ UNCHANGED <<monVars, apiVars, netVars, printVars, handlers>>

(***************************************************************************)
(* _updatePrinterIfNeeded(newData, currentData, connectivityTest,          *)
(* syncResults), printers.js:631-739, called as a method of the            *)
(* controller with the stored row of newData.id as currentData             *)
(***************************************************************************)
\* printers.js:745-759 _detectChanges and :635-637 the address
DetectChanges(newData, currentData) ==
    (IF newData.name # currentData.name THEN {"name"} ELSE {})
    \cup (IF newData.ip # currentData.ip THEN {"ip_address"} ELSE {})

\* printers.js:641-656 no change: warnings when the printer does not
\* answer, else unchanged
UnchangedOutcome(res, id, overall) ==
    IF ~overall THEN PushWarning(res, id) ELSE [res EXCEPT !.unchanged = @ + 1]

\* printers.js:721-738 warnings when the printer does not answer, else updated
UpdateOutcome(res, id, overall) ==
    IF ~overall THEN PushWarning(res, id) ELSE [res EXCEPT !.updated = @ + 1]

\* printers.js:632-669 up to the first await
UpdatePrinterIfNeeded(id, name, overall) ==
    /\ IsLive(id)
    /\ LET newData == MkDescriptor(id, name, PrinterIp, TRUE, "absent")
           changes == DetectChanges(newData, printers[id])
           c == [NewCall("update", "uSetup", <<>>, newData)
                   EXCEPT !.isConnected = overall, !.cur = printers[id],
                          !.nameChanged = ("name" \in changes)]
       IN  IF changes = {}
           THEN Begin(Done(c), UnchangedOutcome(NoResults, id, overall))
           ELSE IF c.nameChanged
                THEN Begin([c EXCEPT !.pc = "uRemoveOld"], NoResults)
                ELSE Begin(c, NoResults)
    /\ UNCHANGED <<cups, printers>> /\ UNCHANGED <<monVars, apiVars, netVars, printVars, handlers>>

\* the error is thrown without setting the old queue up again
UpdateAfterSetupFailure_NoRestore(c) == Thrown(c)

\* printers.js:683-697 setupPrinter failed: after a name change the old
\* queue is set up again before the throw
UpdateAfterSetupFailure(c) ==
    IF c.nameChanged THEN [c EXCEPT !.pc = "uRestore"] ELSE Thrown(c)

\* printers.js:668 removePrinter(currentData.name) answers; the answer is
\* not looked at
URemoveOld ==
    /\ call.kind = "update" /\ call.pc = "uRemoveOld"
    /\ cups' = CupsRemove(call.cur.name)
    /\ Logged("removePrinter", call.d.id, call.cur.name, HasQueue(call.cur.name))
    /\ call' = [call EXCEPT !.pc = "uSetup"]
    /\ UNCHANGED <<printers, syncResults, syncFaults>> /\ UNCHANGED <<monVars, apiVars, netVars, printVars, handlers>>

\* lpadmin -x fails on the queue that is there
URemoveOldFail ==
    /\ call.kind = "update" /\ call.pc = "uRemoveOld"
    /\ Fault
    /\ HasQueue(call.cur.name)
    /\ Logged("removePrinter", call.d.id, call.cur.name, FALSE)
    /\ call' = [call EXCEPT !.pc = "uSetup"]
    /\ UNCHANGED <<cups, printers, syncResults>> /\ UNCHANGED <<monVars, apiVars, netVars, printVars, handlers>>

\* printers.js:672 setupPrinter(newData) answers {success: true}
USetup ==
    /\ call.kind = "update" /\ call.pc = "uSetup"
    /\ cups' = CupsSet(call.d.name, call.d.ip)
    /\ Logged("setupPrinter", call.d.id, call.d.name, TRUE)
    /\ call' = [call EXCEPT !.pc = "uUpdate", !.printerWasSetUp = TRUE]
    /\ UNCHANGED <<printers, syncResults, syncFaults>> /\ UNCHANGED <<monVars, apiVars, netVars, printVars, handlers>>

\* setupPrinter(newData) answers {success: false}
USetupFail ==
    /\ call.kind = "update" /\ call.pc = "uSetup"
    /\ Fault
    /\ cups' \in SetupFailureOutcomes(call.d.name, call.d.ip)
    /\ Logged("setupPrinter", call.d.id, call.d.name, FALSE)
    /\ call' = UpdateAfterSetupFailure(call)
    /\ UNCHANGED <<printers, syncResults>> /\ UNCHANGED <<monVars, apiVars, netVars, printVars, handlers>>

\* printers.js:686-697 setupPrinter(currentData) answers {success: true};
\* throw
URestore ==
    /\ call.kind = "update" /\ call.pc = "uRestore"
    /\ cups' = CupsSet(call.cur.name, call.cur.ip)
    /\ Logged("setupPrinter", call.d.id, call.cur.name, TRUE)
    /\ call' = Thrown(call)
    /\ UNCHANGED <<printers, syncResults, syncFaults>> /\ UNCHANGED <<monVars, apiVars, netVars, printVars, handlers>>

\* setupPrinter(currentData) answers {success: false}; the answer is not
\* looked at; throw
URestoreFail ==
    /\ call.kind = "update" /\ call.pc = "uRestore"
    /\ Fault
    /\ cups' \in SetupFailureOutcomes(call.cur.name, call.cur.ip)
    /\ Logged("setupPrinter", call.d.id, call.cur.name, FALSE)
    /\ call' = Thrown(call)
    /\ UNCHANGED <<printers, syncResults>> /\ UNCHANGED <<monVars, apiVars, netVars, printVars, handlers>>

\* printers.js:701-738 Printer.update answers
UUpdate ==
    /\ call.kind = "update" /\ call.pc = "uUpdate"
    /\ printers' = PrinterUpdate(call.d.id, call.d.name, call.d.ip)
    /\ Logged("update", call.d.id, call.d.name, TRUE)
    /\ syncResults' = UpdateOutcome(syncResults, call.d.id, call.isConnected)
    /\ call' = Done(call)
    /\ UNCHANGED <<cups, syncFaults>> /\ UNCHANGED <<monVars, apiVars, netVars, printVars, handlers>>

\* Printer.update answers {message}: the queue is removed again and the
\* descriptor is only warned about
UUpdateFail_Undo ==
    /\ call.kind = "update" /\ call.pc = "uUpdate"
    /\ Fault
    /\ cups' = CupsRemove(call.d.name)
    /\ log' = log \o <<Event("update", call.d.id, call.d.name, FALSE),
                        Event("removePrinter", call.d.id, call.d.name, TRUE)>>
    /\ syncResults' = PushWarning(syncResults, call.d.id)
    /\ call' = Done(call)
    /\ UNCHANGED printers /\ UNCHANGED <<monVars, apiVars, netVars, printVars, handlers>>

\* printers.js:716-718 Printer.update answers {message}: throw
UUpdateFail ==
    /\ call.kind = "update" /\ call.pc = "uUpdate"
    /\ Fault
    /\ Logged("update", call.d.id, call.d.name, FALSE)
    /\ call' = Thrown(call)
    /\ UNCHANGED <<cups, printers, syncResults>> /\ UNCHANGED <<monVars, apiVars, netVars, printVars, handlers>>

(***************************************************************************)
(* The reconciler as a whole.                                              *)
(***************************************************************************)
SyncInit ==
    /\ disk = [p \in AllPaths |-> 0]
    /\ files = {}
    /\ nextId = 0
    /\ processedFiles = {}
    /\ pendingAdd = {}
    /\ delivered = {}
    /\ tasks = EmptyBag
    /\ dropped = {}
    /\ faultCount = 0
    /\ ApiQuiet
    /\ NetQuiet
    /\ SyncQuiet

\* the steps taken when CUPS and the store answer without error
SyncStep ==
    \/ \E batch \in Batches(DesktopDescriptors) : DesktopSyncPrinters(batch)
    \/ \E batch \in Batches(MacDescriptors), reachable \in BOOLEAN :
          MacSyncPrinters(batch, reachable)
    \/ \E id \in PrinterIds, name \in Names, overall \in BOOLEAN :
          CreatePrinter(id, name, overall)
    \/ \E id \in PrinterIds, name \in Names, overall \in BOOLEAN :
          UpdatePrinterIfNeeded(id, name, overall)
    \/ Finish
    \/ DGetAll
    \/ DGetById
    \/ DProbe
    \/ DSetup
    \/ DWrite
    \/ DDelRemove
    \/ DDelDelete
    \/ MGetAll
    \/ MFindPrinterByMac
    \/ CSetup
    \/ CInsert
    \/ CUndo
    \/ URemoveOld
    \/ USetup
    \/ URestore
    \/ UUpdate

\* the failures of CUPS and of the store
SyncFault ==
    \/ DGetAllFail
    \/ DGetByIdFail
    \/ DSetupFail
    \/ DWriteFail
    \/ DDelRemoveFail
    \/ DDelDeleteFail
    \/ MGetAllFail
    \/ CSetupFail
    \/ CInsertFail
    \/ CUndoFail
    \/ URemoveOldFail
    \/ USetupFail
    \/ URestoreFail
    \/ UUpdateFail

SyncNext == SyncStep \/ SyncFault

SyncSpec == SyncInit /\ [][SyncNext]_vars

SyncTypeOK ==
    /\ cups \subseteq [name : Names, ip : {NoIp, PrinterIp}]
    /\ \A q1, q2 \in cups : q1.name = q2.name => q1 = q2
    /\ printers \in [PrinterIds -> [name : Names \cup {NoName}, ip : {NoIp, PrinterIp},
                                    deleted : BOOLEAN]]
    /\ call.kind \in {"none", "desktop", "mac", "create", "update"}
    /\ call.pc \in {"done", "getAll", "getById", "probe", "setup", "write",
                    "delRemove", "delDelete", "findByMac", "cSetup", "cInsert",
                    "cUndo", "uRemoveOld", "uSetup", "uRestore", "uUpdate"}
    /\ syncResults.created \in Nat /\ syncResults.updated \in Nat
    /\ syncFaults \in 0..MaxSyncFaults

(***************************************************************************)
(* The exported methods alone, called in any state of the table and of     *)
(* CUPS.                                                                   *)
(***************************************************************************)
PrinterRows ==
    {NoRecord} \cup [name : Names, ip : {NoIp, PrinterIp}, deleted : BOOLEAN]

CupsStates ==
    {qs \in SUBSET [name : Names, ip : {NoIp, PrinterIp}] :
        \A q1, q2 \in qs : q1.name = q2.name => q1 = q2}

MethodInit ==
    /\ disk = [p \in AllPaths |-> 0]
    /\ files = {}
    /\ nextId = 0
    /\ processedFiles = {}
    /\ pendingAdd = {}
    /\ delivered = {}
    /\ tasks = EmptyBag
    /\ dropped = {}
    /\ faultCount = 0
    /\ ApiQuiet
    /\ NetQuiet
    /\ cups \in CupsStates
    /\ printers \in [PrinterIds -> PrinterRows]
    /\ call = IdleCall
    /\ syncResults = NoResults
    /\ log = <<>>
    /\ syncFaults = 0
    /\ handlers = [h \in Handlers |-> IdleHandler]
    /\ PrintQuiet

MethodNext ==
    \/ \E id \in PrinterIds, name \in Names, overall \in BOOLEAN :
          CreatePrinter(id, name, overall)
    \/ \E id \in PrinterIds, name \in Names, overall \in BOOLEAN :
          UpdatePrinterIfNeeded(id, name, overall)
    \/ Finish
    \/ CSetup
    \/ CInsert
    \/ CUndo
    \/ URemoveOld
    \/ USetup
    \/ URestore
    \/ UUpdate
    \/ CSetupFail
    \/ CInsertFail
    \/ CUndoFail
    \/ URemoveOldFail
    \/ USetupFail
    \/ URestoreFail
    \/ UUpdateFail

MethodSpec == MethodInit /\ [][MethodNext]_vars

(***************************************************************************)
(* Claims about the reconciler.                                            *)
(***************************************************************************)
Range(seq) == {seq[i] : i \in DOMAIN seq}

\* the call of the given kind has returned and its locals are still there
Returned(kinds) == call.kind \in kinds /\ call.pc = "done"

\* _createPrinter has returned after setupPrinter succeeded and
\* Printer.insert failed
CreateInsertFailed ==
    /\ Returned({"create"})
    /\ Len(log) >= 2
    /\ log[1] = Event("setupPrinter", call.d.id, call.d.name, TRUE)
    /\ log[2] = Event("insert", call.d.id, call.d.name, FALSE)

\* removePrinter(name) was called after the failed insert, and then the
\* error was thrown
UndoInvoked ==
    /\ Len(log) = 3
    /\ log[3].op = "removePrinter" /\ log[3].name = call.d.name
    /\ call.thrown

\* C2 (as amended): in _createPrinter, when setupPrinter succeeds and
\* Printer.insert fails, removePrinter is called for the printer's name
\* before the error is thrown, and no row is written; the queue is gone
\* afterwards whenever that removePrinter call succeeds.
C2_UndoInvokedBeforeError ==
    CreateInsertFailed =>
        /\ UndoInvoked
        /\ log[3].ok => ~HasQueue(call.d.name)

\* _createPrinter undid the queue of a printer whose insert failed
C2_Witness ==
    /\ CreateInsertFailed
    /\ UndoInvoked
    /\ log[3].ok
    /\ ~HasQueue(call.d.name)
    /\ syncFaults = 1

\* C2 (as stated): in _createPrinter, when setupPrinter succeeds and
\* Printer.insert fails, removePrinter is called before the error is
\* recorded and afterwards no CUPS queue exists for the printer, which has
\* no PrinterRecord.
C2_NoOrphanQueue ==
    CreateInsertFailed => (UndoInvoked /\ ~HasQueue(call.d.name))

\* the store write at log[j] failed right after setupPrinter succeeded for
\* the same descriptor
WriteFailedAfterSetup(j) ==
    /\ j \in DOMAIN log /\ j > 1
    /\ log[j].op \in {"insert", "update"} /\ ~log[j].ok
    /\ log[j - 1] = Event("setupPrinter", log[j].id, log[j].name, TRUE)

\* C3: in the desktop-agent variant, when setupPrinter succeeded for a
\* descriptor and the store write that follows fails, removePrinter is
\* called for that name, so that no queue stays configured for a change
\* that was not stored.
C3_DesktopUndoOnStoreFailure ==
    Returned({"desktop"}) =>
        \A j \in DOMAIN log :
            WriteFailedAfterSetup(j) =>
                /\ \E k \in DOMAIN log :
                      k > j /\ log[k].op = "removePrinter" /\ log[k].name = log[j].name
                /\ ~HasQueue(log[j].name)

\* the successful store writes of the call
Writes == {i \in DOMAIN log : log[i].op \in {"insert", "update"} /\ log[i].ok}

\* setupPrinter succeeded for the record written at log[i] earlier in the
\* call, and no removePrinter was issued for that record afterwards
Applied(i) ==
    \E j \in DOMAIN log :
        /\ j < i
        /\ log[j] = Event("setupPrinter", log[i].id, log[i].name, TRUE)
        /\ \A k \in DOMAIN log :
              k > j => ~(log[k].op = "removePrinter" /\ log[k].id = log[i].id)

RenameSetupFailed ==
    /\ Returned({"update"})
    /\ call.nameChanged
    /\ Len(log) >= 2
    /\ log[1].op = "removePrinter" /\ log[1].name = call.cur.name
    /\ log[2] = Event("setupPrinter", call.d.id, call.d.name, FALSE)

\* setupPrinter was called again with the stored name before the error was
\* thrown, and the row is as it was
RestoreInvoked ==
    /\ Len(log) = 3
    /\ log[3].op = "setupPrinter" /\ log[3].name = call.cur.name
    /\ call.thrown
    /\ printers[call.d.id] = call.cur

\* C5 (as amended): in _updatePrinterIfNeeded, when the name changed and
\* setupPrinter for the new name fails, setupPrinter is called again with
\* the stored name and configuration before the error is thrown and the
\* PrinterRecord is unchanged; the queue exists again under the old name
\* with the old configuration whenever that second call succeeds.
C5_RestoreInvokedBeforeError ==
    RenameSetupFailed =>
        /\ RestoreInvoked
        /\ log[3].ok => [name |-> call.cur.name, ip |-> call.cur.ip] \in cups

\* the old queue was restored after a failed rename
C5_Witness ==
    /\ RenameSetupFailed
    /\ RestoreInvoked
    /\ log[3].ok
    /\ [name |-> call.cur.name, ip |-> call.cur.ip] \in cups
    /\ syncFaults = 1

\* C5 (as stated): in _updatePrinterIfNeeded, when the name changed and
\* setupPrinter for the new name fails, setupPrinter is called again with
\* the stored name before the error is recorded; afterwards the
\* PrinterRecord is unchanged and the CUPS queue exists again under the
\* old name.
C5_OldQueueRestored ==
    RenameSetupFailed => (RestoreInvoked /\ HasQueue(call.cur.name))

\* a syncPrinters call answered a request of exactly one descriptor with
\* all required fields, and neither CUPS nor the store failed
OneValidDescriptor ==
    /\ Returned({"desktop", "mac"})
    /\ call.response = "success"
    /\ Len(call.request) = 1
    /\ ~MissingIdOrName(call.request[1])
    /\ call.kind = "desktop" => call.request[1].ip # NoIp
    /\ call.kind = "mac" => (call.request[1].mac /\ call.exists)
    /\ syncFaults = 0
    /\ \A i \in DOMAIN log : log[i].ok

\* what the connectivity probe of that descriptor's printer answers
ProbePositive ==
    IF call.kind = "desktop" THEN call.isConnected ELSE call.reachable

\* C9: for a descriptor with valid required fields whose connectivity
\* probe is negative while the adapter and store operations succeed, a
\* PrinterRecord is still inserted or updated, and the descriptor is listed
\* in warnings and not in errors.
C9_UnreachableStoredWithWarning ==
    (OneValidDescriptor /\ ~ProbePositive) =>
        LET d == call.request[1] IN
        /\ \E i \in Writes : log[i].id = d.id
        /\ d.id \in Range(syncResults.warnings)
        /\ d.id \notin Range(syncResults.errors)

\* C10: for a batch of one valid descriptor whose id has no PrinterRecord,
\* setupPrinter is called exactly once, the call completes before
\* Printer.insert is issued, and the summary reports created = 1.
C10_SetupOnceThenInsert ==
    (OneValidDescriptor /\ ProbePositive /\ call.request[1].id \notin call.hadRow) =>
        LET d == call.request[1]
            setups == {i \in DOMAIN log : log[i].op = "setupPrinter"}
        IN  /\ Cardinality(setups) = 1
            /\ \A i \in setups :
                  /\ log[i].name = d.name
                  /\ \E j \in DOMAIN log : j > i /\ log[j].op = "insert" /\ log[j].id = d.id
            /\ syncResults.created = 1

\* the steps of a syncPrinters call that handle the descriptor call.d
DescriptorPcs == {"getById", "probe", "setup", "write", "findByMac"}

\* a syncPrinters call is handling a descriptor that equals the stored
\* PrinterRecord of its id
Replaying ==
    /\ call.kind \in {"desktop", "mac"}
    /\ call.pc \in DescriptorPcs
    /\ IsLive(call.d.id)
    /\ printers[call.d.id].name = call.d.name
    /\ call.kind = "desktop" => printers[call.d.id].ip = call.d.ip

\* the step ends the handling of the descriptor call.d
DescriptorFinished ==
    call'.pc \notin DescriptorPcs \/ Len(call'.batch) < Len(call.batch)

\* C11: replaying a sync batch whose descriptors equal the stored
\* PrinterRecords reports each descriptor as unchanged and issues no
\* setupPrinter or removePrinter call and no store write for it.
C11_ReplayIsUnchanged ==
    [][Replaying =>
          /\ log' = log /\ cups' = cups /\ printers' = printers
          /\ DescriptorFinished => syncResults'.unchanged = syncResults.unchanged + 1]_vars

(***************************************************************************)
(* watcher.on('unlink'), monitor.js:273-291 (unnamed/part_005:674-692 is   *)
(* the same handler).  The handler is a callback of its own: it suspends   *)
(* at FilesModel.getById and at FilesModel.delete.                         *)
(***************************************************************************)
\* a user removes a materialized file from the share
UserRemove(p) ==
    /\ exists(p)
    /\ disk' = [disk EXCEPT ![p] = 0]
    /\ pendingAdd' = pendingAdd \ {p}
    /\ Disappears(p)
    /\ UNCHANGED <<files, nextId, processedFiles, delivered, tasks, dropped, faultCount>>
    /\ UNCHANGED <<syncVars, apiVars, netVars, job, printLog>>

\* monitor.js:273-283 the 'unlink' callback up to its first await
WatcherUnlink(p) ==
    /\ p \in pendingUnlink
    /\ pendingUnlink' = pendingUnlink \ {p}
    /\ IF exists(p) \/ ~uuidValidate(basenameNoExt(p))
       THEN UNCHANGED tasks
       ELSE Spawn([IdleTask EXCEPT !.kind = "unlink", !.pc = "unlinkGetById",
                                   !.path = p, !.id = basenameNoExt(p)])
    /\ UNCHANGED <<disk, files, nextId, processedFiles, pendingAdd, delivered, dropped, faultCount>>
    /\ UNCHANGED <<syncVars, apiVars, netVars, job, printLog, aged>>

\* the row is exempt from the soft delete whatever its flag
IsPrinted_Never(result) == FALSE

\* monitor.js:286 result && result.printed
IsPrinted(result) == \E r \in result : r.printed

\* monitor.js:284-288 FilesModel.getById answers
UnlinkGetById(tk) ==
    /\ tk.pc = "unlinkGetById"
    /\ IF IsPrinted(FilesGetById(tk.id))
       THEN SetTask(tk, IdleTask)
       ELSE SetTask(tk, [tk EXCEPT !.pc = "unlinkDelete"])
    /\ UNCHANGED <<disk, files, nextId, processedFiles, pendingAdd, delivered, dropped, faultCount>>
    /\ UNCHANGED <<syncVars, apiVars, netVars, printVars>>

\* FilesModel.getById answers {message}, which has no printed flag
UnlinkGetByIdFail(tk) ==
    /\ faultCount < MaxFaults
    /\ faultCount' = faultCount + 1
    /\ tk.pc = "unlinkGetById"
    /\ SetTask(tk, [tk EXCEPT !.pc = "unlinkDelete"])
    /\ UNCHANGED <<disk, files, nextId, processedFiles, pendingAdd, delivered, dropped>>
    /\ UNCHANGED <<syncVars, apiVars, netVars, printVars>>

\* monitor.js:290 FilesModel.delete(fileId) answers
UnlinkDelete(tk) ==
    /\ tk.pc = "unlinkDelete"
    /\ files' = FilesDelete(tk.id)
    /\ SetTask(tk, IdleTask)
    /\ UNCHANGED <<disk, nextId, processedFiles, pendingAdd, delivered, dropped, faultCount>>
    /\ UNCHANGED <<syncVars, apiVars, netVars, printVars>>

\* FilesModel.delete answers {message}
UnlinkDeleteFail(tk) ==
    /\ faultCount < MaxFaults
    /\ faultCount' = faultCount + 1
    /\ tk.pc = "unlinkDelete"
    /\ SetTask(tk, IdleTask)
    /\ UNCHANGED <<disk, files, nextId, processedFiles, pendingAdd, delivered, dropped>>
    /\ UNCHANGED <<syncVars, apiVars, netVars, printVars>>

(***************************************************************************)
(* printFile, unnamed/part_001:102-155.  One request is handled at a time; *)
(* every awaited store call is one step.  execSync blocks the event loop,  *)
(* so the lp command runs in the step in which Files.updatePrinted         *)
(* answers.                                                                *)
(***************************************************************************)
\* Files.updatePrinted(fileId, assetId), part_001:133: the files model
\* (unnamed/part_004) has no such function; it is taken to mark the row
\* printed = true, assetId = printer id
FilesUpdatePrinted(id, assetId) ==
    {r \in files : r.id # id} \cup
    {[r EXCEPT !.printed = TRUE, !.assetId = assetId] : r \in {q \in files : q.id = id}}

PrintEvent(op, ok) == [op |-> op, ok |-> ok]

\* the response of the request
Answer(j, response) == [j EXCEPT !.pc = "done", !.response = response]

\* a failure of the store or of lp is injected into the request
JobFault == faultCount < MaxFaults /\ faultCount' = faultCount + 1

\* part_001:104 the request {fileId, assetId} arrives
PrintFile(fileId, assetId) ==
    /\ job = IdleJob
    /\ job' = [IdleJob EXCEPT !.pc = "getFile", !.fileId = fileId, !.assetId = assetId]
    /\ UNCHANGED <<printLog, pendingUnlink, aged>>
    /\ UNCHANGED <<monVars, syncVars, apiVars, netVars>>

\* part_001:106-114 Files.getById answers
PGetFile ==
    /\ job.pc = "getFile"
    /\ LET file == FilesGetById(job.fileId) IN
          job' = IF file = {} THEN Answer(job, "badRequest")
                 ELSE [job EXCEPT !.pc = "getPrinter", !.file = file]
    /\ UNCHANGED <<printLog, pendingUnlink, aged>>
    /\ UNCHANGED <<monVars, syncVars, apiVars, netVars>>

\* part_001:112-114 Files.getById answers {message}
PGetFileFail ==
    /\ job.pc = "getFile"
    /\ JobFault
    /\ job' = Answer(job, "badRequest")
    /\ UNCHANGED <<disk, files, nextId, processedFiles, pendingAdd, delivered, tasks, dropped>>
    /\ UNCHANGED <<printLog, pendingUnlink, aged>>
    /\ UNCHANGED <<syncVars, apiVars, netVars>>

\* the request is rejected and the row is left as it is
StaleFile_Answer(j) == Answer(j, "badRequest")

\* part_001:126-128 the stored path is not on disk: Files.delete comes next
StaleFile(j) == [j EXCEPT !.pc = "delete"]

\* part_001:116-131 Printers.getById answers; fs.existsSync(file.path)
PGetPrinter ==
    /\ job.pc = "getPrinter"
    /\ LET printer == PrinterGetById(job.assetId)
           file == CHOOSE r \in job.file : TRUE
       IN  job' = IF printer = {} THEN Answer(job, "badRequest")
                  ELSE LET j == [job EXCEPT !.printerName = (CHOOSE r \in printer : TRUE).name]
                       IN  IF ~exists(file.path) THEN StaleFile(j)
                           ELSE [j EXCEPT !.pc = "updatePrinted"]
    /\ UNCHANGED <<printLog, pendingUnlink, aged>>
    /\ UNCHANGED <<monVars, syncVars, apiVars, netVars>>

\* part_001:122-124 Printers.getById answers {message}
PGetPrinterFail ==
    /\ job.pc = "getPrinter"
    /\ JobFault
    /\ job' = Answer(job, "badRequest")
    /\ UNCHANGED <<disk, files, nextId, processedFiles, pendingAdd, delivered, tasks, dropped>>
    /\ UNCHANGED <<printLog, pendingUnlink, aged>>
    /\ UNCHANGED <<syncVars, apiVars, netVars>>

\* part_001:128-130 Files.delete(fileId) answers; the answer is not looked at
PDelete ==
    /\ job.pc = "delete"
    /\ files' = FilesDelete(job.fileId)
    /\ printLog' = Append(printLog, PrintEvent("delete", TRUE))
    /\ job' = Answer(job, "badRequest")
    /\ UNCHANGED <<disk, nextId, processedFiles, pendingAdd, delivered, tasks, dropped, faultCount>>
    /\ UNCHANGED <<pendingUnlink, aged>>
    /\ UNCHANGED <<syncVars, apiVars, netVars>>

\* Files.delete answers {message}
PDeleteFail ==
    /\ job.pc = "delete"
    /\ JobFault
    /\ printLog' = Append(printLog, PrintEvent("delete", FALSE))
    /\ job' = Answer(job, "badRequest")
    /\ UNCHANGED <<disk, files, nextId, processedFiles, pendingAdd, delivered, tasks, dropped>>
    /\ UNCHANGED <<pendingUnlink, aged>>
    /\ UNCHANGED <<syncVars, apiVars, netVars>>

\* lp -d <name> <path> exits with 0: the queue and the file are there
LpAccepts(name, p) == HasQueue(name) /\ exists(p)

\* the printed flag is taken back when lp fails
AfterLpFailure_Rollback(fs, id) ==
    {[r EXCEPT !.printed = IF r.id = id THEN FALSE ELSE @] : r \in fs}

\* part_001:145-154 the catch after a failed lp: the rows stay as they are
AfterLpFailure(fs, id) == fs

\* part_001:133-144 Files.updatePrinted answers; execSync runs lp
PUpdatePrinted ==
    /\ job.pc = "updatePrinted"
    /\ LET file == CHOOSE r \in job.file : TRUE
           marked == FilesUpdatePrinted(job.fileId, job.assetId)
           ok == LpAccepts(job.printerName, file.path)
       IN  /\ files' = IF ok THEN marked ELSE AfterLpFailure(marked, job.fileId)
           /\ printLog' = printLog \o <<PrintEvent("updatePrinted", TRUE), PrintEvent("lp", ok)>>
           /\ job' = IF ok THEN [job EXCEPT !.pc = "unlink", !.response = "success"]
                     ELSE Answer(job, "internalServerError")
    /\ UNCHANGED <<disk, nextId, processedFiles, pendingAdd, delivered, tasks, dropped, faultCount>>
    /\ UNCHANGED <<pendingUnlink, aged>>
    /\ UNCHANGED <<syncVars, apiVars, netVars>>

\* part_001:134-136 Files.updatePrinted answers {message}
PUpdatePrintedFail ==
    /\ job.pc = "updatePrinted"
    /\ JobFault
    /\ printLog' = Append(printLog, PrintEvent("updatePrinted", FALSE))
    /\ job' = Answer(job, "badRequest")
    /\ UNCHANGED <<disk, files, nextId, processedFiles, pendingAdd, delivered, tasks, dropped>>
    /\ UNCHANGED <<pendingUnlink, aged>>
    /\ UNCHANGED <<syncVars, apiVars, netVars>>

\* part_001:138, 145-154 lp fails although the queue and the file are there
PLpFail ==
    /\ job.pc = "updatePrinted"
    /\ JobFault
    /\ LET file == CHOOSE r \in job.file : TRUE IN LpAccepts(job.printerName, file.path)
    /\ files' = AfterLpFailure(FilesUpdatePrinted(job.fileId, job.assetId), job.fileId)
    /\ printLog' = printLog \o <<PrintEvent("updatePrinted", TRUE), PrintEvent("lp", FALSE)>>
    /\ job' = Answer(job, "internalServerError")
    /\ UNCHANGED <<disk, nextId, processedFiles, pendingAdd, delivered, tasks, dropped>>
    /\ UNCHANGED <<pendingUnlink, aged>>
    /\ UNCHANGED <<syncVars, apiVars, netVars>>

\* part_001:142-144 setImmediate: fs.unlink(file.path) is called without a
\* callback, which removes the file on a Node that only warns about the
\* missing callback and throws before touching the file on a Node that
\* rejects it
PUnlink ==
    /\ job.pc = "unlink"
    /\ LET file == CHOOSE r \in job.file : TRUE IN
       \E removed \in BOOLEAN :
          IF removed
          THEN /\ disk' = [disk EXCEPT ![file.path] = 0]
               /\ pendingAdd' = pendingAdd \ {file.path}
               /\ Disappears(file.path)
          ELSE UNCHANGED <<disk, pendingAdd, pendingUnlink, aged>>
    /\ job' = [job EXCEPT !.pc = "done"]
    /\ UNCHANGED <<files, nextId, processedFiles, delivered, tasks, dropped, faultCount>>
    /\ UNCHANGED printLog
    /\ UNCHANGED <<syncVars, apiVars, netVars>>

\* the request is over: its locals are gone
PFinish ==
    /\ job.pc = "done"
    /\ job' = IdleJob
    /\ printLog' = <<>>
    /\ UNCHANGED <<pendingUnlink, aged>>
    /\ UNCHANGED <<monVars, syncVars, apiVars, netVars>>

\* the printers and queues a print request can meet
PrintFleets ==
    {[printers |-> [i \in PrinterIds |-> row], cups |-> qs] :
        row \in {NoRecord, PrinterRecord("lp1", PrinterIp),
                 [PrinterRecord("lp1", PrinterIp) EXCEPT !.deleted = TRUE]},
        qs \in {{}, {[name |-> "lp1", ip |-> PrinterIp]}}}

\* what the ingestion pipeline leaves behind for an identifier: nothing, a
\* registered and materialized file, or the soft-deleted row and the written
\* file of a copy that was given up (monitor.js:82-91, 155-157)
Leftovers == [Ids -> {"none", "registered", "rolledBack"}]

LeftoverRecord(i, c, kind) ==
    [FileRecord(i, [base |-> ReportBase, ext |-> PdfExt], PageCount(c),
                MkPath(SubDir, i, PdfExt))
       EXCEPT !.deleted = (kind = "rolledBack")]

PrintInit ==
    /\ \E left \in Leftovers, c \in PageCounts :
          /\ disk = [p \in AllPaths |->
                        IF p \in CanonPaths /\ left[p.base] # "none" THEN c ELSE 0]
          /\ files = {LeftoverRecord(i, c, left[i]) : i \in {k \in Ids : left[k] # "none"}}
    /\ nextId = MaxIds
    /\ processedFiles = {}
    /\ pendingAdd = {}
    /\ delivered = {}
    /\ tasks = EmptyBag
    /\ dropped = {}
    /\ faultCount = 0
    /\ ApiQuiet
    /\ NetQuiet
    /\ \E fleet \in PrintFleets : printers = fleet.printers /\ cups = fleet.cups
    /\ call = IdleCall
    /\ syncResults = NoResults
    /\ log = <<>>
    /\ syncFaults = 0
    /\ handlers = [h \in Handlers |-> IdleHandler]
    /\ PrintQuiet

\* the steps of the print dispatcher and of the 'unlink' watcher
PrintStep ==
    \/ \E fileId \in Ids, assetId \in PrinterIds : PrintFile(fileId, assetId)
    \/ PGetFile
    \/ PGetPrinter
    \/ PDelete
    \/ PUpdatePrinted
    \/ PUnlink
    \/ PFinish
    \/ \E p \in AllPaths : UserRemove(p)
    \/ \E p \in AllPaths : WatcherUnlink(p)
    \/ \E tk \in Running : UnlinkGetById(tk)
    \/ \E tk \in Running : UnlinkDelete(tk)

\* the failures of the store and of lp
PrintFault ==
    \/ PGetFileFail
    \/ PGetPrinterFail
    \/ PDeleteFail
    \/ PUpdatePrintedFail
    \/ PLpFail
    \/ \E tk \in Running : UnlinkGetByIdFail(tk)
    \/ \E tk \in Running : UnlinkDeleteFail(tk)

PrintNext ==
    \/ \E p \in DropPaths, c \in PageCounts : Drop(p, c)
    \/ PrintStep
    \/ PrintFault

PrintSpec == PrintInit /\ [][PrintNext]_vars

(***************************************************************************)
(* Claims about the print dispatcher and the 'unlink' watcher.             *)
(***************************************************************************)
\* the row of the file the request names
JobRecords == {r \in files : r.id = job.fileId}

\* the request has issued the call op
Issued(op) == \E i \in DOMAIN printLog : printLog[i].op = op

\* lp was run for the request and failed
LpFailed == \E i \in DOMAIN printLog : printLog[i] = PrintEvent("lp", FALSE)

\* C12: in printFile, the store update marking the file printed = true with
\* assetId = printerId completes before the lp command is issued; if lp
\* then fails, the caller gets an internal-error response and the record
\* stays printed = true.
C12_MarkedBeforePrint ==
    /\ \A i \in DOMAIN printLog :
          printLog[i].op = "lp" =>
              /\ i > 1 /\ printLog[i - 1] = PrintEvent("updatePrinted", TRUE)
              /\ \A r \in JobRecords : r.printed /\ r.assetId = job.assetId
    /\ LpFailed => job.pc = "done" /\ job.response = "internalServerError"

\* lp failed for a queue and a file that are there, and the row is marked
C12_Witness ==
    /\ LpFailed
    /\ job.response = "internalServerError"
    /\ \E r \in JobRecords : r.printed /\ r.assetId = job.assetId /\ exists(r.path)
    /\ HasQueue(job.printerName)

\* C13: printFile issues neither the printed-flag update nor the lp command
\* when the file record or the printer record is missing, is soft-deleted,
\* or was returned by the store as an error sentinel.
C13_RejectsUnusableRecords ==
    (Issued("updatePrinted") \/ Issued("lp")) =>
        /\ job.file # {}
        /\ \A r \in job.file : ~r.deleted
        /\ IsLive(job.assetId)

\* the stored path of the file row the request has loaded
JobPath == (CHOOSE r \in job.file : TRUE).path

\* C14 (as amended): once printFile has loaded the file row and the printer
\* row, if the file's stored path does not exist on disk it calls
\* Files.delete for the row, which is soft-deleted unless that store call
\* fails, answers the request as not found, and issues neither the
\* printed-flag update nor lp.
C14_StaleRecordDeleteIssued ==
    [][/\ (job.pc = "getPrinter" /\ job'.pc # "getPrinter" /\ job'.printerName # NoName)
              => (job'.pc = "delete" <=> ~exists(JobPath))
       /\ (job.pc = "delete" /\ job' # job)
              => /\ job' = Answer(job, "badRequest")
                 /\ Len(printLog') = 1 /\ printLog'[1].op = "delete"
                 /\ printLog'[1].ok => \A r \in files' : r.id = job.fileId => r.deleted]_vars

\* a request for a file that a user removed was answered not found and the
\* row was soft-deleted
C14_Witness ==
    /\ job.pc = "done" /\ job.response = "badRequest"
    /\ printLog = <<PrintEvent("delete", TRUE)>>
    /\ \E r \in JobRecords : r.deleted /\ ~exists(r.path)

\* C14 (as stated): if the file's stored path does not exist on disk when
\* printFile runs, the FileRecord is soft-deleted, the request is answered
\* as not found, and neither the printed-flag update nor lp is issued.
C14_StaleRecordDeleted ==
    [][(/\ job.pc \in {"getFile", "getPrinter", "delete"}
        /\ job'.pc = "done"
        /\ \E r \in JobRecords : ~exists(r.path))
           => /\ job'.response = "badRequest"
              /\ ~(\E i \in DOMAIN printLog' : printLog'[i].op \in {"updatePrinted", "lp"})
              /\ \A r \in files' : r.id = job.fileId => r.deleted]_vars

\* the step is taken by the callback tk, without an injected failure
StepOf(tk) ==
    /\ CopiesIn(tk, tasks') < CopiesIn(tk, tasks)
    /\ faultCount' = faultCount

Age(p) ==
    /\ exists(p) /\ p \notin aged
    /\ aged' = aged \cup {p}
    /\ UNCHANGED <<job, printLog, pendingUnlink>>
    /\ UNCHANGED <<monVars, syncVars, apiVars, netVars>>

\* monitor.js:50-65 the loop goes on with the next name, or the run ends
CleanNext(tk) ==
    IF Tail(tk.items) = <<>> THEN [tk EXCEPT !.pc = "cleanDone", !.items = <<>>]
    ELSE [tk EXCEPT !.pc = "cleanStat", !.items = Tail(@)]

\* monitor.js:46-48 readdir of the subfolder answers and the cutoff is set
CleanStart ==
    /\ ReadDir # <<>>
    /\ \A tk \in Running : tk.kind # "clean"
    /\ Spawn([IdleTask EXCEPT !.kind = "clean", !.pc = "cleanStat", !.items = ReadDir,
                              !.old = aged])
    /\ UNCHANGED <<disk, files, nextId, processedFiles, pendingAdd, delivered, dropped, faultCount>>
    /\ UNCHANGED <<syncVars, apiVars, netVars, printVars>>

\* monitor.js:52-60 fs.promises.stat(fullPath) answers, or throws for a
\* name that is gone: the catch of line 66 ends the run
CleanStat(tk) ==
    /\ tk.pc = "cleanStat"
    /\ LET p == Head(tk.items) IN
       IF ~exists(p) THEN SetTask(tk, [tk EXCEPT !.pc = "cleanDone"])
       ELSE IF p \in tk.old THEN SetTask(tk, [tk EXCEPT !.pc = "cleanDelete"])
       ELSE SetTask(tk, CleanNext(tk))
    /\ UNCHANGED <<disk, files, nextId, processedFiles, pendingAdd, delivered, dropped, faultCount>>
    /\ UNCHANGED <<syncVars, apiVars, netVars, printVars>>

\* monitor.js:60-63, 27-31 FilesModel.delete(id) answers; fs.existsSync
CleanDelete(tk) ==
    /\ tk.pc = "cleanDelete"
    /\ LET p == Head(tk.items) IN
          /\ files' = FilesDelete(basenameNoExt(p))
          /\ IF exists(p) THEN SetTask(tk, [tk EXCEPT !.pc = "cleanUnlink"])
             ELSE SetTask(tk, CleanNext(tk))
    /\ UNCHANGED <<disk, nextId, processedFiles, pendingAdd, delivered, dropped, faultCount>>
    /\ UNCHANGED <<syncVars, apiVars, netVars, printVars>>

\* monitor.js:30 fs.promises.unlink(filePath) answers (ENOENT is caught)
CleanUnlink(tk) ==
    /\ tk.pc = "cleanUnlink"
    /\ LET p == Head(tk.items) IN
          /\ disk' = [disk EXCEPT ![p] = 0]
          /\ pendingAdd' = pendingAdd \ {p}
          /\ Disappears(p)
    /\ SetTask(tk, CleanNext(tk))
    /\ UNCHANGED <<files, nextId, processedFiles, delivered, dropped, faultCount>>
    /\ UNCHANGED <<syncVars, apiVars, netVars, job, printLog>>

\* deleteOldFiles has returned
CleanEnd(tk) ==
    /\ tk.pc = "cleanDone"
    /\ SetTask(tk, IdleTask)
    /\ UNCHANGED <<disk, files, nextId, processedFiles, pendingAdd, delivered, dropped, faultCount>>
    /\ UNCHANGED <<syncVars, apiVars, netVars, printVars>>

\* the clean-up beside users who drop and remove files; the store and the
\* filesystem answer without error
CleanStep ==
    \/ \E p \in DropPaths, c \in PageCounts : Drop(p, c)
    \/ \E p \in AllPaths : Age(p)
    \/ \E p \in AllPaths : UserRemove(p)
    \/ CleanStart
    \/ \E tk \in Running : CleanStat(tk)
    \/ \E tk \in Running : CleanDelete(tk)
    \/ \E tk \in Running : CleanUnlink(tk)
    \/ \E tk \in Running : CleanEnd(tk)

CleanSpec == PrintInit /\ [][CleanStep]_vars

\* C16: deleteOldFiles, recursing through all subdirectories, deletes every
\* regular file whose modification time is older than the cutoff and
\* soft-deletes the record keyed by the file's base name; every file whose
\* modification time is not older than the cutoff, and its record, is left
\* unchanged.
C16_OldFilesDeleted ==
    /\ [](\A tk \in Running :
             tk.pc = "cleanDone" => \A p \in tk.old : ~exists(p))
    /\ [][\A tk \in Running :
             (tk.kind = "clean" /\ CopiesIn(tk, tasks') < CopiesIn(tk, tasks)) =>
                 /\ \A p \in AllPaths \ tk.old : disk'[p] = disk[p]
                 /\ \A p \in tk.old :
                       disk'[p] # disk[p] =>
                           \A r \in files' : r.id = basenameNoExt(p) => r.deleted
                 /\ \A r \in files : r \in files' \/ MkPath(SubDir, r.id, PdfExt) \in tk.old]_vars

(***************************************************************************)
(* The ingestion pipeline when a user drops a file again under a name that *)
(* was dropped before.                                                     *)
(***************************************************************************)
\* a file is dropped at a path whose earlier file is gone
DropAgain(p, c) ==
    /\ p \in dropped /\ ~exists(p)
    /\ disk' = [disk EXCEPT ![p] = c]
    /\ pendingAdd' = pendingAdd \cup {p}
    /\ UNCHANGED <<files, nextId, processedFiles, tasks, faultCount, delivered, dropped>>
    /\ UNCHANGED <<syncVars, apiVars, netVars, printVars>>

RedropNext ==
    \/ MonNext
    \/ \E p \in DropPaths, c \in PageCounts : DropAgain(p, c)

RedropSpec == MonInit /\ [][RedropNext]_vars

\* how many watcher callbacks (timers and processNewFile runs) are in
\* flight for the path p
WatchRuns(p) ==
    LET ws == {tk \in Running : tk.kind = "watch" /\ tk.path = p}
        RECURSIVE Sum(_)
        Sum(S) == IF S = {} THEN 0
                  ELSE LET tk == CHOOSE x \in S : TRUE
                       IN  CopiesIn(tk, tasks) + Sum(S \ {tk})
    IN  Sum(ws)

\* C17: for any given path, from the 'add' callback that inserts the path
\* into processedFiles until the path is removed from that set, every
\* further 'add' callback for the same path returns without calling
\* processNewFile, so two watcher-originated processNewFile runs for the
\* same path never overlap.
C17_NoOverlappingWatcherRuns ==
    /\ [](\A p \in AllPaths :
             /\ WatchRuns(p) <= 1
             /\ WatchRuns(p) = 1 => p \in processedFiles)
    /\ [][\A p \in pendingAdd \ pendingAdd' :
             (p \in processedFiles /\ p \in delivered' /\ disk' = disk) =>
                 (tasks' = tasks /\ processedFiles' = processedFiles)]_vars

\* a file dropped again while the callback of the first one is still
\* waiting to clear processedFiles: its 'add' callback has returned without
\* a run of its own
C17_Witness ==
    \E p \in DropPaths :
        /\ exists(p) /\ p \notin pendingAdd /\ p \in processedFiles
        /\ BagCardinality(tasks) = 1
        /\ \E tk \in Running : tk.kind = "watch" /\ tk.path = p /\ tk.pc = "cooldown"
        /\ \E r \in files : ~r.deleted /\ exists(r.path)
        /\ faultCount = 0

(***************************************************************************)
(* syncPrinters, desktop-agent variant, when several requests are handled  *)
(* side by side: every request runs the handler of printers.js:14-322 with *)
(* locals of its own and they interleave at the awaits.  A handler at      *)
(* "setup" or "delRemove" has called setupPrinter or removePrinter and is  *)
(* waiting for the answer.  CUPS and the store answer without error.       *)
(***************************************************************************)
\* the handler h goes on with the call and result lists of r
Resume(h, r) == handlers' = [handlers EXCEPT ![h] = [call |-> r.call, res |-> r.res]]

At(h, pc) == handlers[h].call.kind = "desktop" /\ handlers[h].call.pc = pc

\* printers.js:14-27 a request arrives at an idle handler
HSyncPrinters(h, batch) ==
    /\ handlers[h] = IdleHandler
    /\ Resume(h, [call |-> NewCall("desktop", "getAll", batch, NoDescriptor), res |-> NoResults])
    /\ UNCHANGED <<cups, printers, call, syncResults, log, syncFaults>>
    /\ UNCHANGED <<monVars, apiVars, netVars, printVars>>

\* printers.js:27 Printer.getAll answers
HGetAll(h) ==
    /\ At(h, "getAll")
    /\ Resume(h, DesktopLoop([handlers[h].call EXCEPT !.dbPrinters = PrinterGetAll,
                                                 !.snapshot = PrinterGetAll],
                             handlers[h].res))
    /\ UNCHANGED <<cups, printers, call, syncResults, log, syncFaults>>
    /\ UNCHANGED <<monVars, apiVars, netVars, printVars>>

\* printers.js:83-84 Printer.getById answers
HGetById(h) ==
    /\ At(h, "getById")
    /\ LET c == handlers[h].call IN
       Resume(h, DesktopAfterGetById([c EXCEPT !.exists = (PrinterGetById(c.d.id) # {})],
                                     handlers[h].res))
    /\ UNCHANGED <<cups, printers, call, syncResults, log, syncFaults>>
    /\ UNCHANGED <<monVars, apiVars, netVars, printVars>>

\* printers.js:93-117 the connectivity test answers
HProbe(h) ==
    /\ At(h, "probe")
    /\ \E open \in BOOLEAN :
          Resume(h, DesktopAfterProbe([handlers[h].call EXCEPT !.isConnected = open],
                                      handlers[h].res))
    /\ UNCHANGED <<cups, printers, call, syncResults, log, syncFaults>>
    /\ UNCHANGED <<monVars, apiVars, netVars, printVars>>

\* printers.js:138-142 setupPrinter answers {success: true}
HSetup(h) ==
    /\ At(h, "setup")
    /\ LET c == handlers[h].call IN
          /\ cups' = CupsSet(c.d.name, c.d.ip)
          /\ Resume(h, [call |-> [c EXCEPT !.pc = "write", !.printerWasSetUp = TRUE],
                        res |-> handlers[h].res])
    /\ UNCHANGED <<printers, call, syncResults, log, syncFaults>>
    /\ UNCHANGED <<monVars, apiVars, netVars, printVars>>

\* printers.js:179-235 Printer.update / Printer.insert answers
HWrite(h) ==
    /\ At(h, "write")
    /\ LET c == handlers[h].call
           d == c.d
           ok == c.exists \/ PrinterInsertAccepted(d.id)
           res == IF c.exists THEN [handlers[h].res EXCEPT !.updated = @ + 1]
                  ELSE IF ok THEN [handlers[h].res EXCEPT !.created = @ + 1]
                  ELSE PushError(handlers[h].res, d.id)
       IN  /\ printers' = IF c.exists THEN PrinterUpdate(d.id, d.name, d.ip)
                          ELSE IF ok THEN PrinterInsert(d.id, d.name, d.ip)
                          ELSE printers
           /\ Resume(h, DesktopLoop(c, res))
    /\ UNCHANGED <<cups, call, syncResults, log, syncFaults>>
    /\ UNCHANGED <<monVars, apiVars, netVars, printVars>>

\* printers.js:264 removePrinter(dbPrinter.name) answers
HDelRemove(h) ==
    /\ At(h, "delRemove")
    /\ LET c == handlers[h].call IN
          /\ cups' = CupsRemove(Head(c.dbPrinters).name)
          /\ Resume(h, [call |-> [c EXCEPT !.pc = "delDelete"], res |-> handlers[h].res])
    /\ UNCHANGED <<printers, call, syncResults, log, syncFaults>>
    /\ UNCHANGED <<monVars, apiVars, netVars, printVars>>

\* printers.js:268-272 Printer.delete answers
HDelDelete(h) ==
    /\ At(h, "delDelete")
    /\ LET c == handlers[h].call IN
          /\ printers' = PrinterDelete(Head(c.dbPrinters).id)
          /\ Resume(h, [call |-> DesktopNextDeletion(c),
                        res |-> [handlers[h].res EXCEPT !.deleted = @ + 1]])
    /\ UNCHANGED <<cups, call, syncResults, log, syncFaults>>
    /\ UNCHANGED <<monVars, apiVars, netVars, printVars>>

\* printers.js:306 the response has been sent
HFinish(h) ==
    /\ At(h, "done")
    /\ handlers' = [handlers EXCEPT ![h] = IdleHandler]
    /\ UNCHANGED <<cups, printers, call, syncResults, log, syncFaults>>
    /\ UNCHANGED <<monVars, apiVars, netVars, printVars>>

ConcurrentNext ==
    \/ \E h \in Handlers, batch \in Batches(DesktopDescriptors) : HSyncPrinters(h, batch)
    \/ \E h \in Handlers : HGetAll(h)
    \/ \E h \in Handlers : HGetById(h)
    \/ \E h \in Handlers : HProbe(h)
    \/ \E h \in Handlers : HSetup(h)
    \/ \E h \in Handlers : HWrite(h)
    \/ \E h \in Handlers : HDelRemove(h)
    \/ \E h \in Handlers : HDelDelete(h)
    \/ \E h \in Handlers : HFinish(h)

ConcurrentSpec == SyncInit /\ [][ConcurrentNext]_vars

\* the names of the queues for which the handler h has a setupPrinter or
\* removePrinter call in flight
InFlight(h) ==
    IF At(h, "setup") THEN {handlers[h].call.d.name}
    ELSE IF At(h, "delRemove") THEN {Head(handlers[h].call.dbPrinters).name}
    ELSE {}

\* C18: no two setupPrinter/removePrinter invocations for the same printer
\* name are ever in flight at the same time: within one batch descriptors
\* are handled strictly one after another, and this also holds when several
\* sync requests are handled concurrently.
C18_NoConcurrentAdapterCalls ==
    \A h1, h2 \in Handlers : h1 # h2 => InFlight(h1) \cap InFlight(h2) = {}

(***************************************************************************)
(* The deletion phase of the desktop-agent variant, printers.js:257-290.   *)
(***************************************************************************)
\* the desktop-agent handler has answered with the result of the sync
DesktopEnded ==
    call.kind = "desktop" /\ call.pc = "done" /\ call.response = "success"

\* the id is the id of a descriptor of the request
InBatch(id) == \E k \in DOMAIN call.request : call.request[k].id = id

\* the rows Printer.getAll answered whose id the client did not send
Absent == {r \in Range(call.snapshot) : ~InBatch(r.id)}

\* the call in flight has had this answer from CUPS or from the store
Answered(op, id, name, ok) == \E i \in DOMAIN log : log[i] = Event(op, id, name, ok)

LongBatches(D) == UNION {[1..n -> D] : n \in 0..(MaxBatch + 1)}

BatchNext ==
    \/ \E batch \in LongBatches(DesktopDescriptors) : DesktopSyncPrinters(batch)
    \/ \E batch \in LongBatches(MacDescriptors), reachable \in BOOLEAN :
          MacSyncPrinters(batch, reachable)
    \/ Finish
    \/ DGetAll
    \/ DGetAllFail
    \/ DGetById
    \/ DGetByIdFail
    \/ DProbe
    \/ DSetup
    \/ DSetupFail
    \/ DWrite
    \/ DWriteFail
    \/ DDelRemove
    \/ DDelRemoveFail
    \/ DDelDelete
    \/ DDelDeleteFail
    \/ MGetAll
    \/ MGetAllFail
    \/ MFindPrinterByMac

BatchSpec == SyncInit /\ [][BatchNext]_vars

\* the descriptor has the fields the handler in flight requires
Complete(d) ==
    /\ d.id # NoId
    /\ d.name # NoName
    /\ call.kind = "mac" => d.mac

\* the handler in flight is waiting for a lookup, a probe, an adapter call
\* or a store write made for the descriptor call.d
AtDescriptor ==
    /\ call.kind \in {"desktop", "mac"}
    /\ call.pc \in {"getById", "probe", "setup", "write", "findByMac"}

\* the handler in flight has answered with the result of the sync
SyncEnded ==
    /\ call.kind \in {"desktop", "mac"}
    /\ call.pc = "done"
    /\ call.response = "success"

\* the descriptors of the request that reached an outcome of the loop: a
\* created, updated or unchanged record, or an entry of errors (the
\* entries the deletion phase added left out)
Outcomes ==
    syncResults.created + syncResults.updated + syncResults.unchanged
    + Len(syncResults.errors)
    - Cardinality({i \in DOMAIN log : log[i].op = "delete" /\ ~log[i].ok})

\* C20: a handler never waits for a lookup, a probe, an adapter call or a
\* store write on behalf of a descriptor that misses id or name (or
\* mac_address in the MAC-based variant); when it answers, every descriptor
\* of the batch has reached exactly one outcome, the incomplete ones (and
\* the ones whose processing failed) an entry of errors, and the
\* desktop-agent variant has counted the incomplete ones in skipped.
C20_IncompleteDescriptorSkipped ==
    LET incomplete == {k \in DOMAIN call.request : ~Complete(call.request[k])} IN
    /\ AtDescriptor => Complete(call.d)
    /\ SyncEnded =>
          /\ Outcomes = Len(call.request)
          /\ syncResults.created + syncResults.updated + syncResults.unchanged
                <= Len(call.request) - Cardinality(incomplete)
          /\ \A k \in incomplete : call.request[k].id \in Range(syncResults.errors)
          /\ call.kind = "desktop" => syncResults.skipped = Cardinality(incomplete)

\* C20 witness: a handler has answered a batch in which an incomplete
\* descriptor, listed in errors, comes before a descriptor that was written.
C20_Witness ==
    /\ SyncEnded
    /\ \E j, k \in DOMAIN call.request :
          /\ j < k
          /\ ~Complete(call.request[j])
          /\ call.request[j].id \in Range(syncResults.errors)
          /\ Complete(call.request[k])
          /\ Answered("insert", call.request[k].id, call.request[k].name, TRUE)
    /\ syncResults.created = 1

(***************************************************************************)
(* A failed setupPrinter for a printer that has no record.                 *)
(***************************************************************************)
\* setupPrinter answered {success: false} at log[j] for a printer that had
\* no row when the call began
SetupFailedForNew(j) ==
    /\ log[j].op = "setupPrinter" /\ ~log[j].ok
    /\ log[j].id \notin call.hadRow

\* C21: when a syncPrinters call (or _createPrinter) returns, a descriptor
\* without PrinterRecord whose setupPrinter failed has had no record
\* inserted, is not counted as created and is reported as an error (listed
\* in errors, or thrown by _createPrinter to the loop that lists it).
C21_SetupFailureAborts ==
    Returned({"desktop", "mac", "create"}) =>
        \A j \in DOMAIN log :
            SetupFailedForNew(j) =>
                /\ ~Answered("insert", log[j].id, log[j].name, TRUE)
                /\ syncResults.created = 0
                /\ \/ log[j].id \in Range(syncResults.errors)
                   \/ call.kind = "create" /\ call.thrown

(***************************************************************************)
(* A MAC address for which no IP address is found, printers.js:416-427.    *)
(***************************************************************************)
\* the MAC-based handler has answered a request of one complete descriptor
\* for whose MAC address findPrinterByMac found no IP address
MacUnresolved ==
    /\ SyncEnded /\ call.kind = "mac"
    /\ Len(call.request) = 1
    /\ Complete(call.request[1])
    /\ ~call.exists

\* C22: in the MAC-based variant, a descriptor whose MAC address resolves
\* to no IP address is not listed in errors: it is listed in warnings and
\* its record is still inserted or updated.
C22_UnresolvedMacProceeds ==
    MacUnresolved =>
        LET d == call.request[1] IN
        /\ d.id \notin Range(syncResults.errors)
        /\ d.id \in Range(syncResults.warnings)
        /\ \E i \in Writes : log[i].id = d.id

(***************************************************************************)
(* Files the pipeline rejects: a file that is no PDF, a file directly at   *)
(* the watched root.  In RejectSpec a user may drop a text file and a PDF  *)
(* with the extension in capitals next to the PDF of DropPaths; in         *)
(* RootSpec a PDF at the watched root.                                     *)
(***************************************************************************)
\* monitor.js:265-271 the 'change' callback for a file a user has rewritten
WatcherChange(p) ==
    /\ exists(p)
    /\ IF toLowerCase(extname(p)) # ".pdf"
       THEN Spawn([IdleTask EXCEPT !.kind = "change", !.pc = "deleteFile", !.path = p])
       ELSE UNCHANGED tasks
    /\ UNCHANGED <<disk, files, nextId, processedFiles, pendingAdd, delivered, dropped, faultCount>>
    /\ UNCHANGED <<syncVars, apiVars, netVars, printVars>>

\* monitor.js:32-39 fs.promises.unlink throws on a file that is there: the
\* error is logged and the file stays
DeleteFileFail(tk) ==
    /\ faultCount < MaxFaults
    /\ faultCount' = faultCount + 1
    /\ tk.pc = "deleteFile"
    /\ exists(tk.path)
    /\ SetTask(tk, Return(tk))
    /\ UNCHANGED <<disk, files, nextId, processedFiles, pendingAdd, delivered, dropped>>
    /\ UNCHANGED <<syncVars, apiVars, netVars, printVars>>

RejectNext ==
    \/ MonNext
    \/ \E p \in TxtPaths \cup UpperPaths, c \in PageCounts : Drop(p, c)
    \/ \E p \in AllPaths : WatcherChange(p)
    \/ \E tk \in Running : DeleteFile(tk)
    \/ \E tk \in Running : DeleteFileFail(tk)

RejectSpec == MonInit /\ [][RejectNext]_vars

RootNext ==
    \/ MonNext
    \/ \E p \in RootPaths, c \in PageCounts : Drop(p, c)
    \/ \E tk \in Running : DeleteFile(tk)
    \/ \E tk \in Running : DeleteFileFail(tk)

RootSpec == MonInit /\ [][RootNext]_vars

\* the extension of the path, compared as monitor.js:101-102 compares it,
\* is not .pdf
NotPdf(p) == toLowerCase(extname(p)) # ".pdf"

\* the callback tk takes the step
Steps(tk) == CopiesIn(tk, tasks') < CopiesIn(tk, tasks)

\* no FileRecord was made of a file that is no PDF
OnlyPdfRecords ==
    \A r \in files : ~NotPdf(r.path) /\ toLowerCase(r.fileName.ext) = ".pdf"

\* C23 (as amended): no FileRecord is ever inserted for a path whose
\* extension, compared case-insensitively, is not .pdf; the timer of an
\* 'add' event that finds such a file calls deleteFile for it, and
\* deleteFile (called for an 'add' or a 'change' event) removes the file
\* unless its unlink fails.
C23_NonPdfRejected ==
    /\ []OnlyPdfRecords
    /\ [][\A tk \in Running :
             /\ (tk.pc = "debounce" /\ NotPdf(tk.path) /\ exists(tk.path) /\ Steps(tk))
                   => CopiesIn([tk EXCEPT !.pc = "deleteFile"], tasks') > 0
             /\ (tk.pc = "deleteFile" /\ NotPdf(tk.path) /\ Steps(tk))
                   => (~exists(tk.path)' \/ faultCount' > faultCount)]_vars

\* C23 witness: the text file a user dropped has been deleted by the
\* pipeline, no callback is running, and the PDF whose extension is in
\* capitals has a record.
C23_Witness ==
    /\ \E p \in TxtPaths : p \in dropped /\ p \in delivered /\ ~exists(p)
    /\ tasks = EmptyBag
    /\ \E r \in files : r.fileName.ext = UpperPdfExt /\ ~r.deleted

\* C23 (as stated): no FileRecord is ever inserted for a path whose
\* extension is not .pdf, and deleteFile, called for such a file on an
\* 'add' or 'change' event, removes the file.
C23_NonPdfDeleted ==
    /\ []OnlyPdfRecords
    /\ [][\A tk \in Running :
             (tk.pc = "deleteFile" /\ NotPdf(tk.path) /\ Steps(tk))
                 => ~exists(tk.path)']_vars

(***************************************************************************)
(* Claims about the failures of processNewFile.                            *)
(***************************************************************************)
\* the callback tk, waiting for getPages, takes a step that does not lead
\* to FilesModel.insert: getPages returned 'Error'
GetPagesErrorStep(tk) ==
    /\ tk.pc = "getPages"
    /\ Steps(tk)
    /\ \A t \in BagToSet(tasks') :
          (t.pc = "insert" /\ t.path = tk.path /\ t.id = tk.id)
              => CopiesIn(t, tasks') = CopiesIn(t, tasks)

\* C25: when getPages fails, processNewFile inserts no FileRecord, writes no
\* canonical file and leaves the source file as it is.
C25_GetPagesFailureLeavesFile ==
    [][\A tk \in Running :
          GetPagesErrorStep(tk) => (files' = files /\ disk' = disk)]_vars

\* C25 witness: the only run of processNewFile has ended because the page
\* count of the dropped file could not be determined; the file is still
\* there, without record and without canonical copy, for the next sweep.
C25_Witness ==
    /\ faultCount = 1 /\ nextId = 1 /\ files = {}
    /\ tasks = EmptyBag /\ processedFiles = {}
    /\ \A p \in CanonPaths : ~exists(p)
    /\ \E p \in DropPaths : exists(p) /\ p \in Range(ReadDir)

\* the callback tk, inside copyFile, takes the step on which copyFile
\* returns false
CopyFailureStep(tk) ==
    /\ tk.pc \in {"copyRead", "copyWrite", "copyStat"}
    /\ Steps(tk)
    /\ CopiesIn(CopyFailed(tk), tasks') > CopiesIn(CopyFailed(tk), tasks)

\* a file a user dropped is removed only by the unlink of a callback whose
\* copy succeeded
UnlinkedOnlyAfterCopy ==
    \A p \in DropPaths :
        (exists(p) /\ ~exists(p)') =>
            \E tk \in Running : tk.pc = "unlink" /\ tk.path = p /\ tk.copied /\ Steps(tk)

\* C26 (as amended): when copyFile returns false, processNewFile deletes no
\* file and calls FilesModel.delete for the identifier it inserted, which
\* soft-deletes the record unless that store call fails; the original is
\* unlinked only by a run whose copy succeeded.
C26_CopyFailureRollsBack ==
    /\ [](\A tk \in Running : tk.pc = "unlink" => tk.copied)
    /\ [][/\ \A tk \in Running :
                /\ CopyFailureStep(tk) => (disk' = disk /\ files' = files)
                /\ (tk.pc = "rollback" /\ Steps(tk)) =>
                      /\ disk' = disk
                      /\ \/ files' = FilesDelete(tk.id)
                         \/ faultCount' > faultCount /\ files' = files
          /\ UnlinkedOnlyAfterCopy]_vars

\* C26 witness: a copy failed, the run has ended, the record it had
\* inserted is soft-deleted and the original file is still there.
C26_Witness ==
    /\ tasks = EmptyBag
    /\ \E p \in DropPaths :
          /\ exists(p)
          /\ \E r \in files : r.fileName = FileNameOf(p) /\ r.deleted

\* C26 (as stated): when copyFile returns false, the record inserted for
\* the file is soft-deleted once the rollback has run, and the original is
\* not deleted.
C26_CopyFailureSoftDeletes ==
    [][\A tk \in Running :
          (tk.pc = "rollback" /\ Steps(tk)) =>
              /\ disk' = disk
              /\ \A r \in files' : r.id = tk.id => r.deleted]_vars

\* the file is directly in the watched root
AtRoot(p) == dirname(p) = BASE_PATH_FILES

\* processNewFile, called by the callback tk for the file p, has gone on to
\* deleteFile
RejectedBy(tk, p) ==
    \E t \in BagToSet(tasks') :
        /\ t.kind = tk.kind /\ t.pc = "deleteFile" /\ t.path = p
        /\ CopiesIn(t, tasks') > CopiesIn(t, tasks)

\* C27 (as amended): no FileRecord is ever inserted for a file directly in
\* the watched root; processNewFile, called for such a file by the timer of
\* an 'add' event or by a sweep, calls deleteFile for it, which removes the
\* file unless its unlink fails.
C27_RootFileRejected ==
    /\ [](\A r \in files : ~AtRoot(r.path))
    /\ [][\A tk \in Running :
             /\ (tk.pc = "debounce" /\ AtRoot(tk.path) /\ exists(tk.path) /\ Steps(tk))
                   => RejectedBy(tk, tk.path)
             /\ (tk.pc = "stat" /\ AtRoot(Head(tk.items)) /\ exists(Head(tk.items))
                    /\ Steps(tk))
                   => RejectedBy(tk, Head(tk.items))
             /\ (tk.pc = "deleteFile" /\ AtRoot(tk.path) /\ Steps(tk))
                   => (~exists(tk.path)' \/ faultCount' > faultCount)]_vars

\* C27 witness: the PDF a user dropped at the watched root has been deleted
\* by the pipeline and has no record.
C27_Witness ==
    /\ \E p \in RootPaths : p \in dropped /\ ~exists(p)
    /\ tasks = EmptyBag
    /\ files = {}

\* C27 (as stated): no FileRecord is ever inserted for a file directly in
\* the watched root, and processNewFile deletes it.
C27_RootFileDeleted ==
    /\ [](\A r \in files : ~AtRoot(r.path))
    /\ [][\A tk \in Running :
             (tk.pc = "deleteFile" /\ AtRoot(tk.path) /\ Steps(tk))
                 => ~exists(tk.path)']_vars

(***************************************************************************)
(* Files that are already registered.                                      *)
(***************************************************************************)
\* the file is there under an identifier name and the table has a record
\* with that identifier
KnownCanonical(p) ==
    /\ p \in AllPaths /\ exists(p)
    /\ uuidValidate(basenameNoExt(p))
    /\ HasId(FilesGetById(basenameNoExt(p)))

\* every file of the watched tree is registered
AllKnown == \A p \in AllPaths : exists(p) => KnownCanonical(p)

\* the file the callback is handling
Subject(tk) == IF tk.pc = "stat" THEN Head(tk.items) ELSE tk.path

\* C28: while every PDF of the watched tree has a canonical identifier name
\* and an existing record, a sweep, or the timer of an 'add' event, that
\* looks at one of those files writes nothing to the store, creates,
\* renames or deletes no file, and does not go on to register the file
\* (no identifier is generated for it).
C28_KnownFilesUntouched ==
    [][\A tk \in Running :
          (/\ AllKnown
           /\ tk.kind \in {"watch", "sweep"}
           /\ tk.pc \in {"debounce", "stat", "sweepGetById", "getById"}
           /\ KnownCanonical(Subject(tk))
           /\ Steps(tk))
              => (files' = files /\ disk' = disk /\ nextId' = nextId)]_vars

(***************************************************************************)
(* _updatePrinterIfNeeded: Printer.update fails after setupPrinter.        *)
(***************************************************************************)
\* Printer.update failed at log[j], after setupPrinter had succeeded for
\* the descriptor
UpdateFailedAfterSetup(j) ==
    /\ log[j] = Event("update", call.d.id, call.d.name, FALSE)
    /\ \E i \in 1..(j - 1) : log[i] = Event("setupPrinter", call.d.id, call.d.name, TRUE)

\* C30: when _updatePrinterIfNeeded has returned after setupPrinter
\* succeeded and Printer.update failed, it has thrown (the error the loop of
\* syncPrinters lists in errors, printers.js:463-470), the descriptor is
\* counted neither as updated nor as unchanged and is not in warnings, and
\* no adapter call followed the failed write: the queue stays as set up
\* and the record is unchanged.
C30_UpdateFailureIsError ==
    Returned({"update"}) =>
        \A j \in DOMAIN log :
            UpdateFailedAfterSetup(j) =>
                /\ call.thrown
                /\ syncResults.updated = 0 /\ syncResults.unchanged = 0
                /\ call.d.id \notin Range(syncResults.warnings)
                /\ j = Len(log)
                /\ [name |-> call.d.name, ip |-> call.d.ip] \in cups
                /\ printers[call.d.id] = call.cur

\* C30 witness: _updatePrinterIfNeeded has thrown after it moved the queue
\* to the new name and Printer.update failed.
C30_Witness ==
    /\ Returned({"update"}) /\ call.thrown /\ call.nameChanged
    /\ Len(log) > 0 /\ UpdateFailedAfterSetup(Len(log))

(***************************************************************************)
(* cleanFileName called on its own, for every name and for a value that    *)
(* is no string.                                                           *)
(***************************************************************************)
CleanNameInit ==
    /\ disk = [p \in AllPaths |-> 0]
    /\ files = {}
    /\ nextId = 0
    /\ processedFiles = {}
    /\ pendingAdd = {}
    /\ delivered = {}
    /\ tasks = EmptyBag
    /\ dropped = {}
    /\ faultCount = 0
    /\ SyncQuiet
    /\ NetQuiet
    /\ activeApiIPs = <<>>
    /\ notifications = {}
    /\ fileNameSave \in {Str(s) : s \in FileNames} \cup {Undefined}
    /\ cleanResult = Pending

\* part_005:536 cleanFileName(fileNameSave) returns
CallCleanFileName ==
    /\ cleanResult = Pending
    /\ cleanResult' = cleanFileName(fileNameSave)
    /\ UNCHANGED <<monVars, syncVars, printVars, netVars, activeApiIPs, notifications, fileNameSave>>

CleanNameSpec == CleanNameInit /\ [][CallCleanFileName]_vars

\* none of the patterns of cleanFileName matches anywhere in s
MatchesNoPattern(s) ==
    /\ First(s, JobSuffixAt) = 0
    /\ First(s, AppAt) = 0
    /\ First(s, TrailerAt) = 0
    /\ \A i \in 1..(Len(s) - 2) : SubSeq(s, i, i + 2) # AccentCode
    /\ \A i \in DOMAIN s : s[i] \notin Underscore \cup Whitespace
    /\ ~DocExtAtEnd(s)
    /\ ~EndsWith(s, <<".", "pdf", ".", "pdf">>)

\* C24: cleanFileName returns for every argument and never throws; for a
\* file name (a string, the empty one included) it returns a string; for a
\* name none of its patterns matches it returns the name unchanged; and
\* when its body fails (the argument has no replace method) it returns
\* the argument.
C24_CleanFileNameTotal ==
    cleanResult # Pending =>
        /\ cleanResult.pc = "returned"
        /\ fileNameSave.isString => cleanResult.value.isString
        /\ (fileNameSave.isString /\ MatchesNoPattern(fileNameSave.chars))
               => cleanResult.value = fileNameSave
        /\ ~fileNameSave.isString => cleanResult.value = fileNameSave

\* C24 witness: cleanFileName has returned a name of several pieces that
\* none of its patterns matches.
C24_Witness ==
    /\ cleanResult.pc = "returned"
    /\ fileNameSave.isString
    /\ Len(fileNameSave.chars) >= 3
    /\ MatchesNoPattern(fileNameSave.chars)
    /\ cleanResult.value = fileNameSave

(***************************************************************************)
(* The monitor of unnamed/part_005.  Its processNewFile goes through the   *)
(* awaits of monitor.js (the name it stores is first passed through        *)
(* cleanFileName) and, after the unlink or the rollback, awaits            *)
(* sendFileToApi(id) before it returns.                                    *)
(***************************************************************************)
\* part_005:176-180 the addresses getAllWindowsIPs always collects
WindowsIPs == <<"172.17.0.1", "192.168.0.1">>

\* Array.filter(cachedIp => cachedIp !== ip)
WithoutIp(ips, ip) ==
    LET Other(x) == x # ip IN SelectSeq(ips, Other)

\* part_005:246-257 sendFileToApi up to its first await: a cache that is
\* filled and younger than five minutes is tried as it is
SendFileToApi(tk, cacheValid) ==
    IF activeApiIPs # <<>> /\ cacheValid
    THEN [tk EXCEPT !.pc = "send", !.ips = activeApiIPs]
    ELSE [tk EXCEPT !.pc = "getAllWindowsIPs"]

\* part_005:541-547 unlink(filePath) answers, then sendFileToApi(id)
UnlinkThenSend(tk) ==
    /\ tk.pc = "unlink"
    /\ disk' = [disk EXCEPT ![tk.path] = 0]
    /\ pendingAdd' = pendingAdd \ {tk.path}
    /\ Disappears(tk.path)
    /\ \E cacheValid \in BOOLEAN : SetTask(tk, SendFileToApi(tk, cacheValid))
    /\ UNCHANGED <<files, nextId, processedFiles, dropped, faultCount, delivered>>
    /\ UNCHANGED <<syncVars, apiVars, netVars, job, printLog>>

\* part_005:543-545 unlink throws: logged, then sendFileToApi(id)
UnlinkFailThenSend(tk) ==
    /\ faultCount < MaxFaults
    /\ faultCount' = faultCount + 1
    /\ tk.pc = "unlink"
    /\ exists(tk.path)
    /\ \E cacheValid \in BOOLEAN : SetTask(tk, SendFileToApi(tk, cacheValid))
    /\ UNCHANGED <<disk, files, nextId, processedFiles, pendingAdd, delivered, dropped>>
    /\ UNCHANGED <<syncVars, apiVars, netVars, printVars>>

\* part_005:546-549 FilesModel.delete(id) answers, then sendFileToApi(id)
RollbackThenSend(tk) ==
    /\ tk.pc = "rollback"
    /\ files' = FilesDelete(tk.id)
    /\ \E cacheValid \in BOOLEAN : SetTask(tk, SendFileToApi(tk, cacheValid))
    /\ UNCHANGED <<disk, nextId, processedFiles, pendingAdd, delivered, dropped, faultCount>>
    /\ UNCHANGED <<syncVars, apiVars, netVars, printVars>>

\* part_005:258-260 getAllWindowsIPs answers
GetAllWindowsIPs(tk) ==
    /\ tk.pc = "getAllWindowsIPs"
    /\ SetTask(tk, [tk EXCEPT !.pc = "checkConnectivity", !.ips = WindowsIPs])
    /\ UNCHANGED <<disk, files, nextId, processedFiles, pendingAdd, delivered, dropped, faultCount>>
    /\ UNCHANGED <<syncVars, apiVars, netVars, printVars>>

\* part_005:200-243,262-268 checkMultipleApiConnectivity answers: the peers
\* that answered become the cache; if none did, every address is tried
CheckMultipleApiConnectivity(tk) ==
    /\ tk.pc = "checkConnectivity"
    /\ \E active \in SUBSET Range(tk.ips) :
          LET activeIPs == LET Active(x) == x \in active IN SelectSeq(tk.ips, Active)
          IN  /\ activeApiIPs' = activeIPs
              /\ SetTask(tk, [tk EXCEPT !.pc = "send",
                                        !.ips = IF activeIPs = <<>> THEN tk.ips ELSE activeIPs])
    /\ UNCHANGED <<notifications, fileNameSave, cleanResult, netVars>>
    /\ UNCHANGED <<disk, files, nextId, processedFiles, pendingAdd, delivered, dropped, faultCount>>
    /\ UNCHANGED <<syncVars, printVars>>

\* part_005:275-296,326 the peer at the next address answers 200: the
\* address is cached and sendFileToApi returns true
Notified(tk) ==
    /\ tk.pc = "send"
    /\ LET ip == Head(tk.ips)
       IN  activeApiIPs' = IF ip \in Range(activeApiIPs) THEN activeApiIPs
                           ELSE Append(activeApiIPs, ip)
    /\ notifications' = notifications \cup {<<tk.id, TRUE>>}
    /\ SetTask(tk, Return(tk))
    /\ UNCHANGED <<fileNameSave, cleanResult, netVars>>
    /\ UNCHANGED <<disk, files, nextId, processedFiles, pendingAdd, delivered, dropped, faultCount>>
    /\ UNCHANGED <<syncVars, printVars>>

\* the last failing attempt also soft-deletes the record
NotifyFails_Unregister(tk) ==
    /\ tk.pc = "send"
    /\ IF Tail(tk.ips) # <<>>
       THEN /\ activeApiIPs' = WithoutIp(activeApiIPs, Head(tk.ips))
            /\ SetTask(tk, [tk EXCEPT !.ips = Tail(tk.ips)])
            /\ UNCHANGED <<notifications, files>>
       ELSE /\ activeApiIPs' = <<>>
            /\ notifications' = notifications \cup {<<tk.id, FALSE>>}
            /\ files' = FilesDelete(tk.id)
            /\ SetTask(tk, Return(tk))
    /\ UNCHANGED <<fileNameSave, cleanResult, netVars>>
    /\ UNCHANGED <<disk, nextId, processedFiles, pendingAdd, delivered, dropped, faultCount>>
    /\ UNCHANGED <<syncVars, printVars>>

\* part_005:297-324,551-555 the peer at the next address answers another
\* status, or the request fails: the address leaves the cache and the next
\* one is tried; after the last one the cache is emptied, sendFileToApi
\* returns false and processNewFile logs that
NotifyFails(tk) ==
    /\ tk.pc = "send"
    /\ IF Tail(tk.ips) # <<>>
       THEN /\ activeApiIPs' = WithoutIp(activeApiIPs, Head(tk.ips))
            /\ SetTask(tk, [tk EXCEPT !.ips = Tail(tk.ips)])
            /\ UNCHANGED notifications
       ELSE /\ activeApiIPs' = <<>>
            /\ notifications' = notifications \cup {<<tk.id, FALSE>>}
            /\ SetTask(tk, Return(tk))
    /\ UNCHANGED <<fileNameSave, cleanResult, netVars>>
    /\ UNCHANGED <<disk, files, nextId, processedFiles, pendingAdd, delivered, dropped, faultCount>>
    /\ UNCHANGED <<syncVars, printVars>>

NotifyNext ==
    \/ \E p \in DropPaths, c \in PageCounts : Drop(p, c)
    \/ \E p \in AllPaths : WatcherAdd(p)
    \/ SweepStart
    \/ \E tk \in Running : WatchTimer(tk)
    \/ \E tk \in Running : WatchCooldown(tk)
    \/ \E tk \in Running : SweepStat(tk)
    \/ \E tk \in Running : SweepGetById(tk)
    \/ \E tk \in Running : GetById(tk)
    \/ \E tk \in Running : GetPages(tk)
    \/ \E tk \in Running : Insert(tk)
    \/ \E tk \in Running : CopyRead(tk)
    \/ \E tk \in Running : CopyWrite(tk)
    \/ \E tk \in Running : CopyStat(tk)
    \/ \E tk \in Running : CopyWriteFail(tk)
    \/ \E tk \in Running : UnlinkThenSend(tk)
    \/ \E tk \in Running : UnlinkFailThenSend(tk)
    \/ \E tk \in Running : RollbackThenSend(tk)
    \/ \E tk \in Running : GetAllWindowsIPs(tk)
    \/ \E tk \in Running : CheckMultipleApiConnectivity(tk)
    \/ \E tk \in Running : Notified(tk)
    \/ \E tk \in Running : NotifyFails(tk)

NotifySpec == MonInit /\ [][NotifyNext]_vars

(***************************************************************************)
(* A notification that reaches no peer.                                    *)
(***************************************************************************)
\* the callback tk takes a step inside sendFileToApi
InSendFileToApi(tk) ==
    /\ tk.pc \in {"getAllWindowsIPs", "checkConnectivity", "send"}
    /\ Steps(tk)

\* C29: no step of sendFileToApi writes to the files table or to the
\* directory, whether a peer answers or every address fails, and when
\* sendFileToApi returns, true or false, processNewFile returns to its
\* caller in the same way: the record, the canonical file and the removal
\* of the original are those the registration left.
C29_FailedNotificationChangesNothing ==
    [][\A tk \in Running :
          InSendFileToApi(tk) =>
              /\ files' = files /\ disk' = disk /\ nextId' = nextId
              /\ pendingAdd' = pendingAdd /\ processedFiles' = processedFiles
              /\ notifications' # notifications => SetTask(tk, Return(tk))]_vars

\* C29 witness: every callback has ended, the notification of a registered
\* document reached no peer, and its record is live, its canonical file is
\* there and the original is gone.
C29_Witness ==
    /\ tasks = EmptyBag
    /\ \E r \in files :
          /\ <<r.id, FALSE>> \in notifications
          /\ ~r.deleted /\ exists(r.path)
          /\ \A p \in DropPaths : dirname(p) = dirname(r.path) => ~exists(p)

(***************************************************************************)
(* FilesModel.insert fails in processNewFile.                              *)
(***************************************************************************)
\* the canonical file at p has a FileRecord for its identifier
HasRecord(p) == \E r \in files : r.id = basenameNoExt(p)

\* C37: when FilesModel.insert has failed, processNewFile neither writes
\* the canonical file nor deletes the original: no callback that holds an
\* identifier without a record goes on to write or to unlink, and no
\* canonical file is on disk without a FileRecord for its identifier.
C37_NoCanonicalFileWithoutRecord ==
    /\ [](\A p \in CanonPaths \cup UpperCanonPaths : exists(p) => HasRecord(p))
    /\ [][\A tk \in Running :
             (tk.pc \in {"copyRead", "copyWrite", "copyStat", "unlink"}
              /\ FilesGetById(tk.id) = {} /\ Steps(tk))
                 => disk' = disk]_vars

(***************************************************************************)
(* The lp command and the printed flag.                                    *)
(***************************************************************************)
\* this step of printFile runs the lp command
LpIssued ==
    /\ Len(printLog') > Len(printLog)
    /\ printLog'[Len(printLog')].op = "lp"

\* C40: the lp command is issued at most once per file id: printFile never
\* runs lp for a file whose record is already printed = true when the
\* request reaches Files.updatePrinted.
C40_LpOncePerFile ==
    [][LpIssued => \A r \in FilesGetById(job.fileId) : ~r.printed]_vars

(***************************************************************************)
(* Which identifiers the companion service is told about.                  *)
(***************************************************************************)
\* the callback tk calls sendFileToApi(tk.id) in this step
CallsSendFileToApi(tk) ==
    /\ tk.pc \in {"unlink", "rollback"}
    /\ Steps(tk)
    /\ \E tk2 \in BagToSet(tasks') :
          tk2.id = tk.id /\ tk2.pc \in {"send", "getAllWindowsIPs"}

\* C39: sendFileToApi(id) is called only for an id whose FileRecord is
\* live and whose canonical file was written; it is never called for an id
\* whose record was rolled back after a failed copy.
C39_OnlyLiveFilesNotified ==
    [][\A tk \in Running :
          CallsSendFileToApi(tk) =>
              /\ tk.copied
              /\ \E r \in files' : r.id = tk.id /\ ~r.deleted
              /\ disk'[newFilePath(tk.path, tk.id)] # 0]_vars

(***************************************************************************)
(* The full-fleet deletion phase and the answer of removePrinter.          *)
(***************************************************************************)
\* C38: in the deletion phase of the desktop variant a PrinterRecord is
\* soft-deleted only if removePrinter for its name reported success: every
\* Printer.delete that went through follows a removePrinter of the same
\* record that succeeded.
C38_DeletedOnlyAfterQueueRemoved ==
    \A j \in DOMAIN log :
        (log[j].op = "delete" /\ log[j].ok) =>
            /\ j > 1
            /\ log[j - 1] = Event("removePrinter", log[j].id, log[j].name, TRUE)

(***************************************************************************)
(* An update under the same name whose setupPrinter fails.                 *)
(***************************************************************************)
\* setupPrinter(newData) answers failure in this step of an update that
\* keeps the printer's name
SameNameSetupFails ==
    /\ call.kind = "update" /\ call.pc = "uSetup" /\ ~call.nameChanged
    /\ call'.thrown

\* C36: when setupPrinter fails during an update that keeps the printer's
\* name, the CUPS queue that existed under that name before the update is
\* still there afterwards, with the configuration it had.
C36_SameNameQueueSurvives ==
    [][SameNameSetupFails =>
          \A q \in cups : q.name = call.d.name => q \in cups']_vars

(***************************************************************************)
(* The result lists of the MAC-based variant.                              *)
(***************************************************************************)
\* how many entries the five result lists hold
Listed(res) ==
    res.created + res.updated + res.unchanged + Len(res.errors) + Len(res.warnings)

\* C34: in the MAC-based variant every descriptor of a batch ends up in
\* exactly one of created, updated, unchanged, errors, warnings: while the
\* loop is at a descriptor the lists hold one entry for each descriptor
\* before it, when the handler has returned they hold as many entries as
\* the batch has descriptors, and a call of _createPrinter or
\* _updatePrinterIfNeeded either lists its descriptor once or throws (which
\* the loop lists in errors), never both.
C34_EveryDescriptorListedOnce ==
    /\ (call.kind = "mac" /\ call.pc = "findByMac")
           => Listed(syncResults) = Len(call.request) - Len(call.batch) - 1
    /\ Returned({"mac"}) => Listed(syncResults) = Len(call.request)
    /\ Returned({"create", "update"})
           => Listed(syncResults) + (IF call.thrown THEN 1 ELSE 0) = 1

\* C34 witness: the MAC-based handler has returned for a batch of one
\* descriptor with a MAC address, which is in one list.
C34_Witness ==
    /\ Returned({"mac"})
    /\ Len(call.request) = 1 /\ call.request[1].mac /\ ~MissingIdOrName(call.request[1])
    /\ Listed(syncResults) = 1

(***************************************************************************)
(* Queues removed as compensation or in the deletion phase.                *)
(***************************************************************************)
\* log[j] is a removePrinter that took a queue away, issued by _createPrinter
\* after its failed insert or by the deletion phase of the desktop variant
\* (where Printer.delete for the same record follows it)
CompensatingRemoval(j) ==
    /\ log[j].op = "removePrinter" /\ log[j].ok
    /\ \/ call.kind = "create"
       \/ /\ call.kind = "desktop"
          /\ j < Len(log)
          /\ log[j + 1].op = "delete" /\ log[j + 1].id = log[j].id

\* C35: a removePrinter issued as compensation after a failed insert, or in
\* the full-fleet deletion phase, never removes the queue named like a
\* PrinterRecord that is live when the call has finished.
C35_NoLiveQueueRemoved ==
    Returned({"create", "desktop"}) =>
        \A j \in DOMAIN log :
            CompensatingRemoval(j) =>
                \A i \in PrinterIds : IsLive(i) => printers[i].name # log[j].name

(***************************************************************************)
(* network.js getIpFromMac: the three lookup methods.                      *)
(***************************************************************************)
MaxLines == 2
OtherIp == "10.0.0.2"

\* one line of a command's output: whether it holds the normalized MAC, and
\* the address the pattern of line 93, 111 or 124 finds in it (NoIp: none)
OutputLines == [mac : BOOLEAN, ip : {NoIp, PrinterIp, OtherIp}]
Outputs == UNION {[1..n -> OutputLines] : n \in 0..MaxLines}

\* network.js:90-98, 108-115, 141-148 the address of the first line that
\* holds the MAC and an address
RECURSIVE MatchIn(_)
MatchIn(lines) ==
    IF lines = <<>>
    THEN NoIp
    ELSE IF Head(lines).mac /\ Head(lines).ip # NoIp
         THEN Head(lines).ip
         ELSE MatchIn(Tail(lines))

\* one command getIpFromMac has run and what came of it
Ran(cmd, threw, lines) == [cmd |-> cmd, threw |-> threw, lines |-> lines]

\* lookup after cmd answered or threw, about to go on at pc
After(cmd, threw, lines, pc) ==
    [lookup EXCEPT !.ran = Append(@, Ran(cmd, threw, lines)), !.pc = pc]

\* return ip (NoIp: null)
LookupReturns(l, ip) == [l EXCEPT !.pc = "done", !.result = ip]

LookupFrame == UNCHANGED <<monVars, syncVars, printVars, apiVars, probe, setup>>

\* network.js:80-83 getIpFromMac(macAddress) is called with a string
GetIpFromMac ==
    /\ lookup.pc = "idle"
    /\ lookup' = [lookup EXCEPT !.pc = "arp"]
    /\ LookupFrame

\* network.js:87-98 arp -a answers
ArpAnswers ==
    /\ lookup.pc = "arp"
    /\ \E out \in Outputs :
          lookup' = IF MatchIn(out) # NoIp
                    THEN LookupReturns(After("arp -a", FALSE, out, "done"), MatchIn(out))
                    ELSE After("arp -a", FALSE, out, "neigh")
    /\ LookupFrame

\* the first method ends the lookup when it throws
ArpThrows_Stops ==
    /\ lookup.pc = "arp"
    /\ lookup' = LookupReturns(After("arp -a", TRUE, <<>>, "done"), NoIp)
    /\ LookupFrame

\* network.js:99-101 arp -a throws
ArpThrows ==
    /\ lookup.pc = "arp"
    /\ lookup' = After("arp -a", TRUE, <<>>, "neigh")
    /\ LookupFrame

\* network.js:105-115 ip neigh answers
NeighAnswers ==
    /\ lookup.pc = "neigh"
    /\ \E out \in Outputs :
          lookup' = IF MatchIn(out) # NoIp
                    THEN LookupReturns(After("ip neigh", FALSE, out, "done"), MatchIn(out))
                    ELSE After("ip neigh", FALSE, out, "route")
    /\ LookupFrame

\* network.js:116-118 ip neigh throws
NeighThrows ==
    /\ lookup.pc = "neigh"
    /\ lookup' = After("ip neigh", TRUE, <<>>, "route")
    /\ LookupFrame

\* network.js:123-129, 149, 154 ip route | grep default answers: with a
\* gateway the subnet is scanned, without one null is returned
RouteAnswers ==
    /\ lookup.pc = "route"
    /\ \E gateway \in {NoIp, OtherIp} :
          LET out == <<[mac |-> FALSE, ip |-> gateway]>>
          IN  lookup' = IF gateway # NoIp
                        THEN After("ip route", FALSE, out, "nmap")
                        ELSE LookupReturns(After("ip route", FALSE, out, "done"), NoIp)
    /\ LookupFrame

\* network.js:150-154 ip route | grep default throws (grep found nothing)
RouteThrows ==
    /\ lookup.pc = "route"
    /\ lookup' = LookupReturns(After("ip route", TRUE, <<>>, "done"), NoIp)
    /\ LookupFrame

\* network.js:132 nmap -sn answers
NmapAnswers ==
    /\ lookup.pc = "nmap"
    /\ lookup' = After("nmap -sn", FALSE, <<>>, "wait")
    /\ LookupFrame

\* network.js:150-154 nmap -sn throws
NmapThrows ==
    /\ lookup.pc = "nmap"
    /\ lookup' = LookupReturns(After("nmap -sn", TRUE, <<>>, "done"), NoIp)
    /\ LookupFrame

\* network.js:135 the two seconds have passed
ArpTableSettled ==
    /\ lookup.pc = "wait"
    /\ lookup' = [lookup EXCEPT !.pc = "arp2"]
    /\ LookupFrame

\* network.js:138-148, 154 the second arp -a answers
Arp2Answers ==
    /\ lookup.pc = "arp2"
    /\ \E out \in Outputs :
          lookup' = LookupReturns(After("arp -a", FALSE, out, "done"), MatchIn(out))
    /\ LookupFrame

\* network.js:150-154 the second arp -a throws
Arp2Throws ==
    /\ lookup.pc = "arp2"
    /\ lookup' = LookupReturns(After("arp -a", TRUE, <<>>, "done"), NoIp)
    /\ LookupFrame

LookupNext ==
    \/ GetIpFromMac
    \/ ArpAnswers
    \/ ArpThrows
    \/ NeighAnswers
    \/ NeighThrows
    \/ RouteAnswers
    \/ RouteThrows
    \/ NmapAnswers
    \/ NmapThrows
    \/ ArpTableSettled
    \/ Arp2Answers
    \/ Arp2Throws

LookupSpec == MonInit /\ [][LookupNext]_vars

\* the commands of the three methods, in the order of the source
MethodOrder == <<"arp -a", "ip neigh", "ip route", "nmap -sn", "arp -a">>

\* the i-th command run found the MAC with an address
Yields(i) ==
    /\ lookup.ran[i].cmd \in {"arp -a", "ip neigh"}
    /\ ~lookup.ran[i].threw
    /\ MatchIn(lookup.ran[i].lines) # NoIp

\* C31: getIpFromMac runs the ARP table, the neighbour table and the scan
\* with its second ARP lookup in that order; the first command that yields a
\* match is the last one run and its address is returned; a lookup that
\* returned null has started all three methods, whichever of them threw.
C31_FirstMatchingMethodWins ==
    /\ Len(lookup.ran) <= Len(MethodOrder)
    /\ \A i \in DOMAIN lookup.ran :
          /\ lookup.ran[i].cmd = MethodOrder[i]
          /\ Yields(i) => /\ i = Len(lookup.ran)
                          /\ lookup.pc = "done"
                          /\ lookup.result = MatchIn(lookup.ran[i].lines)
    /\ lookup.pc = "done" =>
          \/ Yields(Len(lookup.ran))
          \/ /\ lookup.result = NoIp
             /\ Len(lookup.ran) >= 3

\* the ARP table threw and the neighbour table gave the address
C31_Witness ==
    /\ lookup.pc = "done"
    /\ Len(lookup.ran) = 2
    /\ lookup.ran[1].threw
    /\ lookup.result = PrinterIp

(***************************************************************************)
(* cups.js discoverIppPath and the ipp branch of the desktop-agent         *)
(* syncPrinters.                                                           *)
(***************************************************************************)
\* cups.js:274-281 the common endpoint paths
commonPaths == <<"/ipp/print", "/ipp", "/printer", "/printers/printer", "", "/IPP/Print">>

\* cups.js:289 [...new Set(paths)]: the first occurrence of each path stays
RECURSIVE Unique(_)
Unique(paths) ==
    IF paths = <<>>
    THEN <<>>
    ELSE LET front == Unique(SubSeq(paths, 1, Len(paths) - 1))
         IN  IF paths[Len(paths)] \in Range(front)
             THEN front
             ELSE Append(front, paths[Len(paths)])

\* cups.js:283-289 the paths to test: a suggested path ("": none) goes first
uniquePaths(suggestedPath) ==
    Unique(IF suggestedPath # "" THEN <<suggestedPath>> \o commonPaths ELSE commonPaths)

\* cups.js:295 path || '/'
fullPath(path) == IF path = "" THEN "/" ELSE path

\* cups.js:301, 310 the URI `${protocol}://${ip}:${port}${fullPath}` for the
\* ipp port
Uri(protocol, ip, path) == protocol \o "://" \o ip \o ":631" \o path

\* cups.js:310 the URI returned when no path answered
DefaultUri(protocol, ip) == Uri(protocol, ip, "/ipp/print")

\* what an HTTP(S) GET can come to: a response with a status, an error, a
\* timeout (cups.js:336-353)
Replies ==
    [kind : {"response"}, status : {200, 400, 500}]
        \cup [kind : {"error", "timeout"}, status : {0}]

\* cups.js:323-357 testEndpoint resolves true for a response below 500
testEndpoint(reply) == reply.kind = "response" /\ reply.status < 500

ProbeFrame == UNCHANGED <<monVars, syncVars, printVars, apiVars, lookup, setup>>

\* printers.js:91-97 the descriptor has an ip_address, no connectivity and
\* protocol ipp or ipps: testIppEndpoint(protocol, ip_address, port) is
\* called, which calls discoverIppPath without a suggested path (cups.js:211)
TestIppEndpoint ==
    /\ probe.pc = "idle"
    /\ \E protocol \in {"ipp", "ipps"} :
          probe' = [probe EXCEPT !.pc = "testEndpoint", !.protocol = protocol]
    /\ ProbeFrame

\* cups.js:292-310 the GET of the next path comes to an end: a valid
\* endpoint is returned at once, after the last path the default is returned
TestEndpointAnswers ==
    /\ probe.pc = "testEndpoint"
    /\ \E reply \in Replies :
          LET paths == uniquePaths("")
              path == paths[Len(probe.tried) + 1]
              tried == Append(probe.tried, [path |-> path, reply |-> reply])
          IN  probe' =
                  IF testEndpoint(reply)
                  THEN [probe EXCEPT !.tried = tried, !.pc = "returned",
                                     !.uri = Uri(probe.protocol, PrinterIp, fullPath(path))]
                  ELSE IF Len(tried) = Len(paths)
                       THEN [probe EXCEPT !.tried = tried, !.pc = "returned",
                                          !.uri = DefaultUri(probe.protocol, PrinterIp)]
                       ELSE [probe EXCEPT !.tried = tried]
    /\ ProbeFrame

\* printers.js:98 ippResult.valid: ippResult is the string discoverIppPath
\* returned, which has no such property
IppResultValid(ippResult) == FALSE

\* printers.js:100 ippResult.path: undefined for the same reason
IppResultPath(ippResult) == ""

\* printers.js:98-104 what the handler makes of ippResult
AfterTestIppEndpoint ==
    /\ probe.pc = "returned"
    /\ probe' = IF IppResultValid(probe.uri)
                THEN [probe EXCEPT !.pc = "done", !.isConnected = TRUE,
                                   !.ippPathVerified = IppResultPath(probe.uri)]
                ELSE [probe EXCEPT !.pc = "done"]
    /\ ProbeFrame

IppNext ==
    \/ TestIppEndpoint
    \/ TestEndpointAnswers
    \/ AfterTestIppEndpoint

IppSpec == MonInit /\ [][IppNext]_vars

\* the i-th path tested answered with a status below 500
PathAnswered(i) ==
    /\ probe.tried[i].reply.kind = "response"
    /\ probe.tried[i].reply.status < 500

\* C32: the paths are probed in the order /ipp/print, /ipp, /printer,
\* /printers/printer, '', /IPP/Print; a path that answers below 500 is the
\* last one probed, and once the handler has looked at the result the
\* descriptor is connected and that path is its verified path.
C32_FirstAnsweringPathVerified ==
    /\ \A i \in DOMAIN probe.tried :
          /\ probe.tried[i].path = commonPaths[i]
          /\ PathAnswered(i) => i = Len(probe.tried)
    /\ (probe.pc = "done" /\ PathAnswered(Len(probe.tried))) =>
          /\ probe.isConnected
          /\ probe.ippPathVerified = fullPath(probe.tried[Len(probe.tried)].path)

(***************************************************************************)
(* cups.js setupPrinter, called twice with the same printerData.           *)
(***************************************************************************)
GivenUri == "lpd://10.0.0.1:515/queue"

\* cups.js:17-27 the printerData of a call: driver generic, uri and path
\* given or not ("")
PrinterData ==
    [name : Names, protocol : {"socket", "ipp"}, uri : {"", GivenUri}, path : {"", "/ipp"}]

\* cups.js:224-261 buildPrinterUri for the protocols socket and ipp
buildPrinterUri(protocol, ip, path) ==
    IF protocol = "ipp"
    THEN Uri("ipp", ip, IF path # "" THEN path ELSE "/ipp/print")
    ELSE "socket://" \o ip \o ":9100"

\* cups.js:272-311 the URIs discoverIppPath can return: one of the paths
\* tested answered, or none did and the default is returned
discoverIppPath(protocol, ip, suggestedPath) ==
    {Uri(protocol, ip, fullPath(p)) : p \in Range(uniquePaths(suggestedPath))}
        \cup {DefaultUri(protocol, ip)}

SetupFrame == UNCHANGED <<monVars, printVars, apiVars, lookup, probe>>
                /\ UNCHANGED <<printers, call, syncResults, log, syncFaults, handlers>>

\* cups.js:15-44 setupPrinter(printerData) is called, the second time with
\* the printerData of the first: a given uri is taken, the uri of a socket
\* printer is built, the uri of an ipp printer waits for discoverIppPath
SetupPrinter ==
    /\ setup.pc \in {"idle", "done"}
    /\ setup.calls < 2
    /\ \E d \in PrinterData :
          /\ setup.calls = 1 => d = setup.printerData
          /\ setup' =
                IF d.uri # ""
                THEN [setup EXCEPT !.pc = "remove", !.printerData = d, !.printerUri = d.uri]
                ELSE IF d.protocol = "ipp"
                     THEN [setup EXCEPT !.pc = "discover", !.printerData = d]
                     ELSE [setup EXCEPT !.pc = "remove", !.printerData = d,
                               !.printerUri = buildPrinterUri(d.protocol, PrinterIp, d.path)]
    /\ UNCHANGED cups
    /\ SetupFrame

\* cups.js:34 discoverIppPath answers
SDiscover ==
    /\ setup.pc = "discover"
    /\ \E uri \in discoverIppPath("ipp", PrinterIp, setup.printerData.path) :
          setup' = [setup EXCEPT !.pc = "remove", !.printerUri = uri]
    /\ UNCHANGED cups
    /\ SetupFrame

\* lpadmin -x of a queue that exists takes every queue away
SRemoveOld_All ==
    /\ setup.pc = "remove"
    /\ cups' = IF HasQueue(setup.printerData.name) THEN {} ELSE cups
    /\ setup' = [setup EXCEPT !.pc = "add"]
    /\ SetupFrame

\* cups.js:46-53 lpadmin -x name answers or fails because there is no such
\* queue
SRemoveOld ==
    /\ setup.pc = "remove"
    /\ cups' = CupsRemove(setup.printerData.name)
    /\ setup' = [setup EXCEPT !.pc = "add"]
    /\ SetupFrame

\* cups.js:56-98 lpadmin -p name -E -v printerUri -m raw ... answers
SAdd ==
    /\ setup.pc = "add"
    /\ cups' = CupsSet(setup.printerData.name, setup.printerUri)
    /\ setup' = [setup EXCEPT !.pc = "enable"]
    /\ SetupFrame

\* cups.js:101 cupsenable answers
SEnable ==
    /\ setup.pc = "enable"
    /\ setup' = [setup EXCEPT !.pc = "accept"]
    /\ UNCHANGED cups
    /\ SetupFrame

\* cups.js:104-106 cupsaccept answers and {success: true} is returned
SAccept ==
    /\ setup.pc = "accept"
    /\ setup' = [setup EXCEPT !.pc = "done", !.calls = @ + 1,
                              !.uris = Append(@, setup.printerUri),
                              !.once = IF setup.calls = 0 THEN cups ELSE @]
    /\ UNCHANGED cups
    /\ SetupFrame

SetupNext ==
    \/ SetupPrinter
    \/ SDiscover
    \/ SRemoveOld
    \/ SAdd
    \/ SEnable
    \/ SAccept

SetupSpec == MethodInit /\ [][SetupNext]_vars

\* both calls have returned
CalledTwice == setup.pc = "done" /\ setup.calls = 2

\* C33 as stated: after two setupPrinter calls with the same printerData,
\* all commands succeeding, the queues and their configuration are those
\* the first call left.
C33_SetupIdempotent == CalledTwice => cups = setup.once

\* C33 amended: after two setupPrinter calls with the same printerData, all
\* commands succeeding, that came to the same device URI, the queues and
\* their configuration are those the first call left.
C33_SetupIdempotentForSameUri ==
    (CalledTwice /\ setup.uris[1] = setup.uris[2]) => cups = setup.once

\* an ipp printer without a given uri was set up twice over a queue of that
\* name, and both calls discovered the same URI
C33_Witness ==
    /\ CalledTwice
    /\ setup.printerData.protocol = "ipp" /\ setup.printerData.uri = ""
    /\ setup.uris[1] = setup.uris[2]
    /\ HasQueue(setup.printerData.name)
    /\ Cardinality(cups) = 2

=============================================================================
